---- MODULE Spec2Model ----
(***************************************************************************)
(* Multi-source retrieval and citation engine of osint-chain:              *)
(* EnhancedQueryEngine._create_tools.rag_search (the knowledge_base_search *)
(* tool) and EnhancedQueryEngine.query (dispatch, agent run, citation      *)
(* verifier, MAP post-processing); CISIAnalyzer with the                   *)
(* analyze_critical_infrastructure tool around it; and the PMESII grouping *)
(* cache of scripts/pmesii_analysis.py.                                    *)
(*                                                                         *)
(* Strings are modelled as sequences: a question is a sequence of words,   *)
(* a source name / year is a sequence of character codes, an answer text   *)
(* is a sequence of tokens.  `x in text` is token membership, `+` is \o.   *)
(***************************************************************************)
EXTENDS Integers, Sequences, FiniteSets, TLC

VARIABLES
    scope,            \* "tool": rag_search invoked on its own; "query": inside query()
    lay,              \* layout of the vector index content (environment)
    vsReady,          \* vector_store_manager.vector_store is not None
    index,            \* retrieval outcomes given so far: <<mode, query>> -> outcome
    rpc,              \* position inside rag_search
    query,            \* rag_search argument
    mode,             \* the `retriever` in use: "mmr" or "sim"
    related_queries,  \* rag_search local
    vi,               \* index of the next entry of related_queries[:3]
    all_docs,         \* CandidatePool
    seen_content,     \* set of content hashes
    docs,             \* WorkingSet
    llm_calls,        \* number of completion requests issued by rag_search
    completion,       \* response.content of the completion request
    context,          \* context_parts of the completion request
    rret,             \* value returned by rag_search
    qpc,              \* position inside query()
    question,         \* query() argument
    steps,            \* result["intermediate_steps"]: sequence of [tool, obs]
    final,            \* result["output"] as the agent produced it
    output,           \* the local `output` of query()
    registry,         \* MapRegistry._maps keys
    qret,             \* value returned by query()
    apc,              \* position inside the CISIAnalyzer call and the tool around it
    country_name,     \* analyze_country argument
    max_hotspots,     \* analyze_country argument
    data,             \* out_image[0]: the raster crop of the country bounds
    bounds,           \* get_country_bounds result
    stats,            \* compute_zonal_statistics result
    hotspots,         \* detect_hotspots result
    aret,             \* value returned by analyze_country
    report,           \* value returned by analyze_critical_infrastructure
    cache,            \* _PMESII_CACHE: lowercased country -> grouping
    ppc,              \* position of each group_indicators_by_pmesii call
    country,          \* argument of each group_indicators_by_pmesii call
    use_cache,        \* argument of each group_indicators_by_pmesii call
    grouped,          \* the local `grouped` of each call
    pret,             \* value returned by each call
    clears,           \* number of clear_pmesii_cache calls made
    clear_country     \* argument of the latest clear_pmesii_cache call

ragVars == <<lay, vsReady, index, rpc, query, mode, related_queries, vi,
             all_docs, seen_content, docs, llm_calls, completion, context, rret>>
qVars == <<qpc, question, steps, final, output, registry, qret>>
aVars == <<apc, country_name, max_hotspots, data, bounds, stats, hotspots, aret, report>>
pVars == <<cache, ppc, country, use_cache, grouped, pret, clears, clear_country>>
vars == <<scope, lay, vsReady, index, rpc, query, mode, related_queries, vi,
          all_docs, seen_content, docs, llm_calls, completion, context, rret,
          qpc, question, steps, final, output, registry, qret,
          apc, country_name, max_hotspots, data, bounds, stats, hotspots, aret, report,
          cache, ppc, country, use_cache, grouped, pret, clears, clear_country>>

(***************************************************************************)
(* Bounds of the model                                                     *)
(***************************************************************************)
ManySources == 17      \* number of sources of the widest index layout
LongBatch == 17        \* length of the longest retrieval result
MaxAgentSteps == 2     \* agent iterations explored per request

(***************************************************************************)
(* Program constants                                                       *)
(***************************************************************************)
MaxVariants == 3       \* related_queries[:3]
TopPerQuery == 15      \* docs[:15]
WorkingSetBudget == 15 \* len(docs) < 15
FewSources == 2        \* len(source_keys) <= 2
SomeSources == 4       \* len(source_keys) <= 4
DepthCap == 8
MidCap == 4
BreadthCap == 2

\* character codes used in source names, years, keys and labels
US == 0                \* "_"  in f"{source}_{year}"
LPAR == 100            \* " (" in f"{source} ({year})"
RPAR == 101            \* ")"
UnknownName == <<90>>  \* 'Unknown'
UnknownYear == <<91>>  \* '?'
Missing == <<>>        \* metadata key absent

Min(a, b) == IF a < b THEN a ELSE b

(***************************************************************************)
(* Environment: the vector index.  Document number g of a layout has a     *)
(* source determined by the layout; a retrieval result is a window of      *)
(* consecutive document numbers.                                           *)
(***************************************************************************)
Layout(k, blk, col, miss) ==
    [k |-> k, blk |-> blk, col |-> col, miss |-> miss, yrs |-> 0]

\* k sources, the first n of them being the yearly editions of one dataset
Editions(k, n) == [k |-> k, blk |-> 1, col |-> FALSE, miss |-> FALSE, yrs |-> n]

ToolLayouts ==
    { Layout(1, 1, FALSE, FALSE), Layout(2, 1, FALSE, FALSE),
      Layout(2, DepthCap, FALSE, FALSE), Layout(2, TopPerQuery + 1, FALSE, FALSE),
      Layout(3, 1, FALSE, TRUE),
      Layout(3, 2, TRUE, FALSE),  Layout(5, 3, FALSE, FALSE),
      Layout(ManySources, 1, FALSE, FALSE),
      Editions(ManySources, WorkingSetBudget) }

QueryLayouts == { Layout(2, 1, FALSE, FALSE) }

SourceIndex(l, g) == (((g - 1) \div l.blk) % l.k) + 1

SourceName(l, j) ==
    IF j <= l.yrs THEN <<1>>
    ELSE IF l.col /\ j = 1 THEN <<1>>
    ELSE IF l.col /\ j = 2 THEN <<1, US, 2>>
    ELSE IF l.miss /\ j = 1 THEN Missing
    ELSE <<j>>

SourceYear(l, j) ==
    IF j <= l.yrs THEN <<20 + j>>
    ELSE IF l.col /\ j = 1 THEN <<2, US, 21>>
    ELSE IF l.miss /\ j = 1 THEN Missing
    ELSE <<21>>

\* a Document: page_content is <<head, tail>>, head being page_content[:200]
Doc(l, g, t) ==
    [ head |-> g, tail |-> t,
      source_name |-> SourceName(l, SourceIndex(l, g)),
      source_year |-> SourceYear(l, SourceIndex(l, g)) ]

Window(l, s, n, t) == [i \in 1..n |-> Doc(l, s + i - 1, t)]

\* outcome of retriever.get_relevant_documents: a ranked list or an exception
Found(batch) == [ok |-> TRUE, docs |-> batch]

FAIL == [ok |-> FALSE, docs |-> <<>>]

ToolOutcomes(l) ==
    { FAIL, Found(Window(l, 1, 0, 0)), Found(Window(l, 1, 2, 0)),
      Found(Window(l, 1, 9, 0)), Found(Window(l, 1, LongBatch, 0)),
      Found(Window(l, 3, TopPerQuery, 0)), Found(Window(l, 2, 3, 1)) }

QueryOutcomes(l) == { FAIL, Found(Window(l, 1, 0, 0)), Found(Window(l, 1, 2, 0)) }

AggOutcomes(l) ==
    { FAIL, Found(Window(l, 1, 0, 0)), Found(Window(l, 1, 2, 0)), Found(Window(l, 2, 2, 0)),
      Found(Window(l, 4, 1, 1)) }

Outcomes(sc, l) ==
    IF sc = "tool" THEN ToolOutcomes(l)
    ELSE IF sc = "agg" THEN AggOutcomes(l)
    ELSE QueryOutcomes(l)

(***************************************************************************)
(* Questions and query expansion (lines 107-125)                           *)
(***************************************************************************)
Lower(w) ==
    CASE w = "Political" -> "political"
      [] w = "Situation" -> "situation"
      [] w = "Economy" -> "economy"
      [] OTHER -> w

ContainsLower(q, kw) == \E i \in DOMAIN q : Lower(q[i]) = kw

Replace(q, old, new) == [i \in DOMAIN q |-> IF q[i] = old THEN new ELSE q[i]]

FirstWord(q) == q[1]

ExpandQuery(q) ==
    IF ContainsLower(q, "political") \/ ContainsLower(q, "situation")
    THEN << q,
            Replace(q, "political", "ethnic"),
            Replace(q, "situation", "demographics"),
            Replace(q, "situation", "economy") >>
    ELSE IF ContainsLower(q, "economy") \/ ContainsLower(q, "economic")
    THEN << q,
            <<FirstWord(q), "GDP">>,
            <<FirstWord(q), "population">>,
            <<FirstWord(q), "trade">> >>
    ELSE << q >>

Take(s, n) == SubSeq(s, 1, Min(n, Len(s)))

ToolQuestions ==
    { <<"population", "Mali">>,
      <<"political", "situation", "Mali">>,
      <<"situation", "Mali">>,
      <<"Political", "Mali">>,
      <<"Mali", "economy">> }

QueryQuestions ==
    { <<"population", "Mali">>,
      <<"situation", "in", "Mali">>,
      <<"infrastructure", "in", "Mali">>,
      <<"infrastructure", "overview">>,
      <<"map", "of", "ethnic", "groups", "in", "Mali">> }

(***************************************************************************)
(* Multi-query aggregation (lines 127-141)                                 *)
(***************************************************************************)
\* variant: the hash is taken over the whole page_content
ContentHashWholeContent(doc) == <<doc.head, doc.tail>>

\* hash(doc.page_content[:200]); equal prefixes give equal hashes
ContentHash(doc) == doc.head

IsNewContent(doc, seen) == ContentHash(doc) \notin seen

RECURSIVE Dedupe(_, _, _)
\* the inner loop `for doc in docs[:15]`: returns <<all_docs, seen_content>>
Dedupe(batch, pool, seen) ==
    IF batch = <<>> THEN <<pool, seen>>
    ELSE LET doc == Head(batch) IN
         IF IsNewContent(doc, seen)
         THEN Dedupe(Tail(batch), Append(pool, doc), seen \cup {ContentHash(doc)})
         ELSE Dedupe(Tail(batch), pool, seen)

RECURSIVE Aggregate(_, _, _, _, _)
\* the loop `for rq in related_queries[:3]` run on a variant list against the
\* retrieval outcomes idx of retriever m: returns <<all_docs, seen_content>>
Aggregate(variants, idx, m, pool, seen) ==
    IF variants = <<>> THEN <<pool, seen>>
    ELSE LET o == idx[<<m, Head(variants)>>]
             r == IF o.ok THEN Dedupe(Take(o.docs, TopPerQuery), pool, seen)
                  ELSE <<pool, seen>>
         IN Aggregate(Tail(variants), idx, m, r[1], r[2])

(***************************************************************************)
(* Source balancing (lines 148-181)                                        *)
(***************************************************************************)
MetaGet(v, default) == IF v = Missing THEN default ELSE v

\* source_key = f"{source}_{year}"
SourceKey(doc) ==
    MetaGet(doc.source_name, UnknownName) \o <<US>> \o MetaGet(doc.source_year, UnknownYear)

RECURSIVE SourceKeys(_)
\* list(sources_seen.keys()): the keys in first-seen order
SourceKeys(pool) ==
    IF pool = <<>> THEN <<>>
    ELSE LET init == SourceKeys(SubSeq(pool, 1, Len(pool) - 1))
             key == SourceKey(pool[Len(pool)])
         IN IF \E i \in DOMAIN init : init[i] = key THEN init ELSE Append(init, key)

\* variant: the documents of a key are kept newest first
SourceDocsLastFirst(pool, key) ==
    LET kept == SelectSeq(pool, LAMBDA d : SourceKey(d) = key)
    IN [i \in 1..Len(kept) |-> kept[Len(kept) + 1 - i]]

\* sources_seen[source_key]: the documents of a key, in pool order
SourceDocs(pool, key) == SelectSeq(pool, LAMBDA d : SourceKey(d) = key)

\* variant: the per-source cap ignores the number of sources
MaxPerSourceFlat(n) == DepthCap

MaxPerSource(n) ==
    IF n <= FewSources THEN DepthCap
    ELSE IF n <= SomeSources THEN MidCap
    ELSE BreadthCap

\* variant: the last document of a source is never reached
ShouldTakeSkipLast(round_num, source_docs, selected) ==
    round_num < Len(source_docs) - 1 /\ Len(selected) < WorkingSetBudget

\* variant: the budget test lets one more document in
ShouldTakeOverBudget(round_num, source_docs, selected) ==
    round_num < Len(source_docs) /\ Len(selected) <= WorkingSetBudget

ShouldTake(round_num, source_docs, selected) ==
    round_num < Len(source_docs) /\ Len(selected) < WorkingSetBudget

RECURSIVE RoundRobinBySource(_, _, _, _, _)
\* variant: the two loops swapped, each source is drained before the next one
RoundRobinBySource(pool, keys, cap, t, selected) ==
    IF t >= cap * Len(keys) THEN selected
    ELSE LET round_num == t % cap
             source_docs == SourceDocs(pool, keys[(t \div cap) + 1])
         IN RoundRobinBySource(pool, keys, cap, t + 1,
                IF round_num < Len(source_docs) /\ Len(selected) < WorkingSetBudget
                THEN Append(selected, source_docs[round_num + 1])
                ELSE selected)

RECURSIVE RoundRobin(_, _, _, _, _)
\* the nested loops of lines 177-181, one (round_num, source_key) pair per call;
\* t counts the pairs visited so far
RoundRobin(pool, keys, cap, t, selected) ==
    IF t >= cap * Len(keys) THEN selected
    ELSE LET round_num == t \div Len(keys)
             source_docs == SourceDocs(pool, keys[(t % Len(keys)) + 1])
         IN RoundRobin(pool, keys, cap, t + 1,
                IF ShouldTake(round_num, source_docs, selected)
                THEN Append(selected, source_docs[round_num + 1])
                ELSE selected)

\* variant: no balancing, the head of the pool is taken
SelectWorkingSetPoolOrder(pool) == Take(pool, WorkingSetBudget)

SelectWorkingSet(pool) ==
    LET keys == SourceKeys(pool)
    IN RoundRobin(pool, keys, MaxPerSource(Len(keys)), 0, <<>>)

(***************************************************************************)
(* Answer texts (lines 190-220, 248-270)                                   *)
(***************************************************************************)
Tok(k, n, s) == [k |-> k, n |-> n, s |-> s]

Word(n) == Tok("word", n, <<>>)          \* prose without any marker
Sup(n) == Tok("sup", n, <<>>)            \* <sup>[n]</sup>
RefWord == Tok("refword", 0, <<>>)       \* the word References in prose
RefHeader == Tok("hdr", 0, <<>>)         \* "\n\n---\n**References**\n"
RefLine(i, label) == Tok("refline", i, label)   \* f"{i}. {source}\n"
MapIdMark == Tok("mapid", 0, <<>>)       \* "MAP_ID:"
MapId(u) == Tok("id", u, <<>>)           \* a map id
MapHtml(u) == Tok("map", u, <<>>)        \* "\n\nMAP:" + html of map u

NotInitText == << Tok("notinit", 0, <<>>) >>
NoInfoText == << Tok("noinfo", 0, <<>>) >>
RagErrorText(e) == << Tok("ragerror", 0, <<>>) >> \o e

\* source_label = f"{source} ({year})"
SourceLabel(doc) ==
    MetaGet(doc.source_name, UnknownName) \o <<LPAR>>
        \o MetaGet(doc.source_year, UnknownYear) \o <<RPAR>>

SourcesList(selected) == [i \in 1..Len(selected) |-> SourceLabel(selected[i])]

ReferencesSection(selected) ==
    <<RefHeader>> \o [i \in 1..Len(selected) |-> RefLine(i, SourcesList(selected)[i])]

\* doc.page_content[:1000]; the modelled documents are shorter than that
DocContent(doc) == <<doc.head, doc.tail>>

RECURSIVE BuildContextBySource(_, _, _)
\* variant: citation_num advances only when the source label changes
BuildContextBySource(selected, citation_num, parts) ==
    IF selected = <<>> THEN parts
    ELSE BuildContextBySource(Tail(selected),
             IF Len(selected) > 1 /\ SourceLabel(selected[2]) = SourceLabel(selected[1])
             THEN citation_num ELSE citation_num + 1,
             Append(parts, [ citation_num |-> citation_num,
                             source_label |-> SourceLabel(Head(selected)),
                             doc_content |-> DocContent(Head(selected)) ]))

RECURSIVE BuildContext(_, _, _)
\* the loop of lines 196-213: one context part per document, numbered by the
\* running citation_num
BuildContext(selected, citation_num, parts) ==
    IF selected = <<>> THEN parts
    ELSE BuildContext(Tail(selected), citation_num + 1,
             Append(parts, [ citation_num |-> citation_num,
                             source_label |-> SourceLabel(Head(selected)),
                             doc_content |-> DocContent(Head(selected)) ]))

\* texts the completion service may return
Completions(sc) ==
    IF sc = "tool"
    THEN { <<Word(1)>>, <<Word(1), Sup(1), Sup(2)>>, <<Word(1), Sup(1), Sup(16)>> }
    ELSE { <<Word(1)>>, <<Word(1), Sup(1)>>, <<Word(1), Sup(3)>> }

\* messages of the exceptions the external services may raise
RetrievalErrors == { <<Word(50)>> }
CompletionErrors == { <<Word(51)>>, <<Word(51), Sup(1)>> }

\* _extract_citations: sorted(set(int(m) ...)) is represented by the set
ExtractCitations(text) == { text[i].n : i \in { j \in DOMAIN text : text[j].k = "sup" } }

(***************************************************************************)
(* rag_search, the knowledge_base_search tool (lines 76-270)               *)
(***************************************************************************)
\* a retriever answers a query it has answered before in the same way
Retrieved(key, o) ==
    /\ o \in Outcomes(scope, lay)
    /\ key \in DOMAIN index => o = index[key]
    /\ index' = (key :> o) @@ index

\* variant: the slice [:3] is dropped, every variant is retrieved
VariantLimitWholeList == Len(related_queries)

VariantLimit == Len(Take(related_queries, MaxVariants))

\* lines 86-87
RagNotInitialized ==
    /\ rpc = "r_start"
    /\ ~vsReady
    /\ rret' = NotInitText
    /\ rpc' = "r_done"
    /\ UNCHANGED <<scope, lay, vsReady, index, query, mode, related_queries, vi,
                   all_docs, seen_content, docs, llm_calls, completion, context>>
    /\ UNCHANGED qVars
    /\ UNCHANGED aVars
    /\ UNCHANGED pVars

\* lines 91-101, then 107-129 when the MMR retrieval succeeds
RagMMR ==
    /\ rpc = "r_start"
    /\ vsReady
    /\ \E o \in Outcomes(scope, lay) :
          /\ Retrieved(<<"mmr", query>>, o)
          /\ IF o.ok
             THEN /\ mode' = "mmr"
                  /\ related_queries' = ExpandQuery(query)
                  /\ vi' = 1
                  /\ rpc' = "r_loop"
             ELSE /\ rpc' = "r_fallback"
                  /\ UNCHANGED <<mode, related_queries, vi>>
    /\ UNCHANGED <<scope, lay, vsReady, query, all_docs, seen_content, docs,
                   llm_calls, completion, context, rret>>
    /\ UNCHANGED qVars
    /\ UNCHANGED aVars
    /\ UNCHANGED pVars

\* lines 102-106, then 107-129; an exception here reaches line 268
RagFallback ==
    /\ rpc = "r_fallback"
    /\ \E o \in Outcomes(scope, lay), e \in RetrievalErrors :
          /\ Retrieved(<<"sim", query>>, o)
          /\ IF o.ok
             THEN /\ mode' = "sim"
                  /\ related_queries' = ExpandQuery(query)
                  /\ vi' = 1
                  /\ rpc' = "r_loop"
                  /\ UNCHANGED rret
             ELSE /\ rret' = RagErrorText(e)
                  /\ rpc' = "r_done"
                  /\ UNCHANGED <<mode, related_queries, vi>>
    /\ UNCHANGED <<scope, lay, vsReady, query, all_docs, seen_content, docs,
                   llm_calls, completion, context>>
    /\ UNCHANGED qVars
    /\ UNCHANGED aVars
    /\ UNCHANGED pVars

\* one iteration of `for rq in related_queries[:3]` (lines 131-141)
RagVariant ==
    /\ rpc = "r_loop"
    /\ vi <= VariantLimit
    /\ \E o \in Outcomes(scope, lay) :
          /\ Retrieved(<<mode, related_queries[vi]>>, o)
          /\ IF o.ok
             THEN LET r == Dedupe(Take(o.docs, TopPerQuery), all_docs, seen_content)
                  IN /\ all_docs' = r[1]
                     /\ seen_content' = r[2]
             ELSE UNCHANGED <<all_docs, seen_content>>
    /\ vi' = vi + 1
    /\ UNCHANGED <<scope, lay, vsReady, rpc, query, mode, related_queries, docs,
                   llm_calls, completion, context, rret>>
    /\ UNCHANGED qVars
    /\ UNCHANGED aVars
    /\ UNCHANGED pVars

\* lines 143-144
RagNoInfo ==
    /\ rpc = "r_loop"
    /\ vi > VariantLimit
    /\ Len(all_docs) = 0
    /\ rret' = NoInfoText
    /\ rpc' = "r_done"
    /\ UNCHANGED <<scope, lay, vsReady, index, query, mode, related_queries, vi,
                   all_docs, seen_content, docs, llm_calls, completion, context>>
    /\ UNCHANGED qVars
    /\ UNCHANGED aVars
    /\ UNCHANGED pVars

RECURSIVE Reverse(_)
Reverse(s) == IF s = <<>> THEN <<>> ELSE Append(Reverse(Tail(s)), Head(s))

\* variant: the source keys are iterated in an order the run picks
RagBalanceAnyKeyOrder ==
    /\ rpc = "r_loop"
    /\ vi > VariantLimit
    /\ Len(all_docs) > 0
    /\ \E keys \in { SourceKeys(all_docs), Reverse(SourceKeys(all_docs)) } :
          docs' = RoundRobin(all_docs, keys, MaxPerSource(Len(keys)), 0, <<>>)
    /\ rpc' = "r_llm"
    /\ UNCHANGED <<scope, lay, vsReady, index, query, mode, related_queries, vi,
                   all_docs, seen_content, llm_calls, completion, context, rret>>
    /\ UNCHANGED qVars
    /\ UNCHANGED aVars
    /\ UNCHANGED pVars

\* lines 148-181
RagBalance ==
    /\ rpc = "r_loop"
    /\ vi > VariantLimit
    /\ Len(all_docs) > 0
    /\ docs' = SelectWorkingSet(all_docs)
    /\ rpc' = "r_llm"
    /\ UNCHANGED <<scope, lay, vsReady, index, query, mode, related_queries, vi,
                   all_docs, seen_content, llm_calls, completion, context, rret>>
    /\ UNCHANGED qVars
    /\ UNCHANGED aVars
    /\ UNCHANGED pVars

\* the documents whose number the text cites
CitedDocuments(selected, text) ==
    SelectSeq(selected,
        LAMBDA d : \E i \in ExtractCitations(text) \cap DOMAIN selected : selected[i] = d)

\* variant: the references list is built from the citations of the completion
RagAnswerCitedReferences ==
    /\ rpc = "r_llm"
    /\ \E c \in Completions(scope) :
          /\ completion' = c
          /\ rret' = c \o ReferencesSection(CitedDocuments(docs, c))
    /\ context' = BuildContext(docs, 1, <<>>)
    /\ llm_calls' = llm_calls + 1
    /\ rpc' = "r_done"
    /\ UNCHANGED <<scope, lay, vsReady, index, query, mode, related_queries, vi,
                   all_docs, seen_content, docs>>
    /\ UNCHANGED qVars
    /\ UNCHANGED aVars
    /\ UNCHANGED pVars

\* lines 190-266: the completion request succeeds
RagAnswer ==
    /\ rpc = "r_llm"
    /\ \E c \in Completions(scope) :
          /\ completion' = c
          /\ rret' = c \o ReferencesSection(docs)
    /\ context' = BuildContext(docs, 1, <<>>)
    /\ llm_calls' = llm_calls + 1
    /\ rpc' = "r_done"
    /\ UNCHANGED <<scope, lay, vsReady, index, query, mode, related_queries, vi,
                   all_docs, seen_content, docs>>
    /\ UNCHANGED qVars
    /\ UNCHANGED aVars
    /\ UNCHANGED pVars

\* variant: the references section is appended to the error string
RagCompletionFailsKeepsReferences ==
    /\ rpc = "r_llm"
    /\ \E e \in CompletionErrors : rret' = RagErrorText(e) \o ReferencesSection(docs)
    /\ context' = BuildContext(docs, 1, <<>>)
    /\ llm_calls' = llm_calls + 1
    /\ rpc' = "r_done"
    /\ UNCHANGED <<scope, lay, vsReady, index, query, mode, related_queries, vi,
                   all_docs, seen_content, docs, completion>>
    /\ UNCHANGED qVars
    /\ UNCHANGED aVars
    /\ UNCHANGED pVars

\* line 249 raises: lines 268-270
RagCompletionFails ==
    /\ rpc = "r_llm"
    /\ \E e \in CompletionErrors : rret' = RagErrorText(e)
    /\ context' = BuildContext(docs, 1, <<>>)
    /\ llm_calls' = llm_calls + 1
    /\ rpc' = "r_done"
    /\ UNCHANGED <<scope, lay, vsReady, index, query, mode, related_queries, vi,
                   all_docs, seen_content, docs, completion>>
    /\ UNCHANGED qVars
    /\ UNCHANGED aVars
    /\ UNCHANGED pVars

RagLocalsInit ==
    /\ index = <<>>
    /\ mode = "none"
    /\ related_queries = <<>>
    /\ vi = 0
    /\ all_docs = <<>>
    /\ seen_content = {}
    /\ docs = <<>>
    /\ llm_calls = 0
    /\ completion = <<>>
    /\ context = <<>>
    /\ rret = <<>>

QueryLocalsInit ==
    /\ steps = <<>>
    /\ final = <<>>
    /\ output = <<>>
    /\ registry = {}
    /\ qret = <<>>

\* no CISIAnalyzer call is in progress
AnalyzerIdle ==
    /\ apc = "a_idle"
    /\ country_name = ""
    /\ max_hotspots = 0
    /\ data = <<>>
    /\ bounds = <<>>
    /\ stats = <<>>
    /\ hotspots = <<>>
    /\ aret = <<>>
    /\ report = <<>>

\* no group_indicators_by_pmesii or clear_pmesii_cache call is made
PmesiiIdle ==
    /\ cache = <<>>
    /\ ppc = <<>>
    /\ country = <<>>
    /\ use_cache = <<>>
    /\ grouped = <<>>
    /\ pret = <<>>
    /\ clears = 0
    /\ clear_country = <<>>

\* rag_search called on its own with a question
InitRag ==
    /\ scope = "tool"
    /\ lay \in ToolLayouts
    /\ vsReady \in BOOLEAN
    /\ rpc = "r_start"
    /\ query \in ToolQuestions
    /\ RagLocalsInit
    /\ qpc = "q_idle"
    /\ question = <<>>
    /\ QueryLocalsInit
    /\ AnalyzerIdle
    /\ PmesiiIdle

\* rag_search called on its own against an index whose answers are all fixed
InitAgg ==
    /\ scope = "agg"
    /\ lay \in QueryLayouts
    /\ vsReady \in BOOLEAN
    /\ rpc = "r_start"
    /\ query \in ToolQuestions
    /\ \E f \in [{ ExpandQuery(query)[i] : i \in DOMAIN ExpandQuery(query) } -> AggOutcomes(lay)],
          mmrWorks \in BOOLEAN :
          index = [key \in {"mmr", "sim"} \X DOMAIN f |->
                      IF key[1] = "mmr" /\ ~mmrWorks THEN FAIL ELSE f[key[2]]]
    /\ mode = "none"
    /\ related_queries = <<>>
    /\ vi = 0
    /\ all_docs = <<>>
    /\ seen_content = {}
    /\ docs = <<>>
    /\ llm_calls = 0
    /\ completion = <<>>
    /\ context = <<>>
    /\ rret = <<>>
    /\ qpc = "q_idle"
    /\ question = <<>>
    /\ QueryLocalsInit
    /\ AnalyzerIdle
    /\ PmesiiIdle

NextRag ==
    \/ RagNotInitialized
    \/ RagMMR
    \/ RagFallback
    \/ RagVariant
    \/ RagNoInfo
    \/ RagBalance
    \/ RagAnswer
    \/ RagCompletionFails

SpecRag == InitRag /\ [][NextRag]_vars

SpecAgg == InitAgg /\ [][NextRag]_vars

(***************************************************************************)
(* query(): keyword dispatch (lines 366-458)                               *)
(***************************************************************************)
ContainsAny(q, kws) == \E i \in DOMAIN q : Lower(q[i]) \in kws

IsMapRequest(q) ==
    /\ ContainsAny(q, {"map", "plot", "visualize", "show me", "display"})
    /\ ContainsAny(q, {"ethnic", "groups", "territories", "epr", "geoepr"})

IsInfrastructureRequest(q) ==
    ContainsAny(q, {"infrastructure", "cisi", "critical infrastructure"})

\* words matched by [A-Z][a-z]+
Capitalized(w) == w \in {"Mali", "Political", "Situation", "Economy"}

NoCountry == "<none>"

\* the three regular expressions tried in turn; `follower` is the word of the
\* second pattern ("infrastructure" or "ethnic")
ExtractCountry(q, follower) ==
    LET after == { i \in 2..Len(q) : q[i - 1] \in {"in", "of", "for"} /\ Capitalized(q[i]) }
        before == { i \in 1..(Len(q) - 1) : Capitalized(q[i]) /\ q[i + 1] = follower }
    IN IF after # {} THEN q[CHOOSE i \in after : \A j \in after : i <= j]
       ELSE IF before # {} THEN q[CHOOSE i \in before : \A j \in before : i <= j]
       ELSE IF Capitalized(q[Len(q)]) THEN q[Len(q)]
       ELSE NoCountry

InfraDirect(q) ==
    IsInfrastructureRequest(q) /\ ExtractCountry(q, "infrastructure") # NoCountry

MapDirect(q) == IsMapRequest(q) /\ ExtractCountry(q, "ethnic") # NoCountry

(***************************************************************************)
(* query(): citation verifier (lines 464-486)                              *)
(***************************************************************************)
KB == "knowledge_base_search"

\* "References" in text
HasReferences(text) == \E i \in DOMAIN text : text[i].k \in {"refword", "hdr"}

\* "<sup>[" in text
HasInlineCitation(text) == \E i \in DOMAIN text : text[i].k = "sup"

\* variant: the final output is tested for the inline marker instead
LostReferencesTestsInline(observation, out) ==
    HasReferences(observation) /\ ~HasInlineCitation(out)

\* lines 475-481
LostReferences(observation, out) ==
    HasReferences(observation) /\ ~HasReferences(out)

\* variant: the final output is not tested for the inline marker
LostInlineCitationsUntested(observation, out) ==
    /\ HasReferences(observation)
    /\ HasReferences(out)
    /\ HasInlineCitation(observation)

\* variant: the elif branch of line 482 is missing
LostInlineCitationsIgnored(observation, out) == FALSE

\* lines 475, 482-486
LostInlineCitations(observation, out) ==
    /\ HasReferences(observation)
    /\ HasReferences(out)
    /\ HasInlineCitation(observation)
    /\ ~HasInlineCitation(out)

RECURSIVE VerifyCitationsAnyTool(_, _, _)
\* variant: the observation of any tool is compared, not only knowledge_base_search
VerifyCitationsAnyTool(stepSeq, i, out) ==
    IF i > Len(stepSeq) THEN out
    ELSE IF \/ LostReferences(stepSeq[i].obs, out)
            \/ LostInlineCitations(stepSeq[i].obs, out)
         THEN stepSeq[i].obs
         ELSE VerifyCitationsAnyTool(stepSeq, i + 1, out)

RECURSIVE VerifyCitations(_, _, _)
\* the loop over result["intermediate_steps"], from step i on
VerifyCitations(stepSeq, i, out) ==
    IF i > Len(stepSeq) THEN out
    ELSE IF /\ stepSeq[i].tool = KB
            /\ \/ LostReferences(stepSeq[i].obs, out)
               \/ LostInlineCitations(stepSeq[i].obs, out)
         THEN stepSeq[i].obs
         ELSE VerifyCitations(stepSeq, i + 1, out)

(***************************************************************************)
(* query(): MAP_ID post-processing (lines 488-508)                         *)
(***************************************************************************)
HasMapId(text) == \E i \in DOMAIN text : text[i].k = "mapid"

MapIdPositions(text) == { i \in DOMAIN text : text[i].k = "mapid" }

FirstMapId(text) == CHOOSE i \in MapIdPositions(text) : \A j \in MapIdPositions(text) : i <= j

\* text.split("MAP_ID:")[0]
SplitHead(text) == SubSeq(text, 1, FirstMapId(text) - 1)

\* text.split("MAP_ID:")[1]
SplitSecond(text) ==
    LET first == FirstMapId(text)
        later == { i \in MapIdPositions(text) : i > first }
        stop == IF later = {} THEN Len(text) + 1
                ELSE CHOOSE i \in later : \A j \in later : i <= j
    IN SubSeq(text, first + 1, stop - 1)

\* MapRegistry.get_map(map_id): the registered map, 0 for None
GetMap(map_id, reg) ==
    IF Len(map_id) = 1 /\ map_id[1].k = "id" /\ map_id[1].n \in reg
    THEN map_id[1].n ELSE 0

RECURSIVE MapFromSteps(_, _, _)
\* lines 497-506: the first observation whose MAP_ID resolves, 0 when none does
MapFromSteps(stepSeq, i, reg) ==
    IF i > Len(stepSeq) THEN 0
    ELSE IF HasMapId(stepSeq[i].obs) /\ GetMap(SplitSecond(stepSeq[i].obs), reg) # 0
         THEN GetMap(SplitSecond(stepSeq[i].obs), reg)
         ELSE MapFromSteps(stepSeq, i + 1, reg)

\* lines 403-411 and 488-494: 0 when the text carries no resolvable MAP_ID
ResolveMapId(text, reg) ==
    IF HasMapId(text) THEN GetMap(SplitSecond(text), reg) ELSE 0

PostProcess(out, stepSeq, reg) ==
    IF ResolveMapId(out, reg) # 0
    THEN SplitHead(out) \o <<MapHtml(ResolveMapId(out, reg))>>
    ELSE IF MapFromSteps(stepSeq, 1, reg) # 0
    THEN out \o <<MapHtml(MapFromSteps(stepSeq, 1, reg))>>
    ELSE out

QueryErrorText(e) == << Tok("queryerror", 0, <<>>) >> \o e

(***************************************************************************)
(* Environment of query(): tools, agent                                    *)
(***************************************************************************)
\* analyze_critical_infrastructure: report followed by MAP_ID:<id>, or the report only
CisiReport(u) == << Word(7), MapIdMark, MapId(u) >>
CisiTextOnly == << Word(7) >>

\* plot_geoepr_map: "MAP:<html>" or a message
PlotMap(u) == << MapHtml(u) >>
PlotNoData == << Word(8) >>

AgentErrors == { <<Word(52)>> }

WithoutInlineCitations(text) == SelectSeq(text, LAMBDA t : t.k # "sup")

\* what the agent may give as Final Answer after the steps taken
FinalAnswers(stepSeq) ==
    { <<Word(2)>>, <<Word(2), RefWord>>, <<Word(2), Sup(1)>>, <<Word(2), Sup(1), RefWord>> }
    \cup { stepSeq[i].obs : i \in DOMAIN stepSeq }
    \cup { WithoutInlineCitations(stepSeq[i].obs) : i \in DOMAIN stepSeq }
    \cup { stepSeq[i].obs \o stepSeq[j].obs : i, j \in DOMAIN stepSeq }

(***************************************************************************)
(* query() (lines 356-512)                                                 *)
(***************************************************************************)
AtMapCheck == qpc = "q_mapcheck" \/ (qpc = "q_start" /\ ~InfraDirect(question))

AtAgent == qpc = "q_agent" \/ (AtMapCheck /\ ~MapDirect(question))

\* lines 381-414
QueryInfrastructure ==
    /\ qpc = "q_start"
    /\ InfraDirect(question)
    /\ \E r \in {"map", "text", "raise"} :
          LET u == Cardinality(registry) + 1
              result == IF r = "map" THEN CisiReport(u) ELSE CisiTextOnly
          IN /\ registry' = IF r = "map" THEN registry \cup {u} ELSE registry
             /\ IF r = "raise"
                THEN qpc' = "q_mapcheck" /\ UNCHANGED qret
                ELSE /\ qpc' = "q_done"
                     /\ qret' = IF ResolveMapId(result, registry') # 0
                                THEN SplitHead(result)
                                         \o <<MapHtml(ResolveMapId(result, registry'))>>
                                ELSE result
    /\ UNCHANGED <<question, steps, final, output, scope>>
    /\ UNCHANGED ragVars
    /\ UNCHANGED aVars
    /\ UNCHANGED pVars

\* lines 416-458
QueryMap ==
    /\ AtMapCheck
    /\ MapDirect(question)
    /\ \E r \in {"map", "nodata", "raise", "llmraise"} :
          LET u == Cardinality(registry) + 1
              map_result == IF r = "nodata" THEN PlotNoData ELSE PlotMap(u)
          IN IF r \in {"raise", "llmraise"}
             THEN qpc' = "q_agent" /\ UNCHANGED qret
             ELSE /\ qpc' = "q_done"
                  /\ qret' = <<Word(9)>> \o map_result
    /\ UNCHANGED <<question, steps, final, output, registry, scope>>
    /\ UNCHANGED ragVars
    /\ UNCHANGED aVars
    /\ UNCHANGED pVars

\* the agent picks knowledge_base_search: rag_search starts
AgentCallsKnowledgeBase ==
    /\ AtAgent
    /\ rpc = "r_idle"
    /\ Len(steps) < MaxAgentSteps
    /\ qpc' = "q_tool"
    /\ rpc' = "r_start"
    /\ query' = question
    /\ UNCHANGED <<scope, lay, vsReady, index, mode, related_queries, vi, all_docs,
                   seen_content, docs, llm_calls, completion, context, rret>>
    /\ UNCHANGED <<question, steps, final, output, registry, qret>>
    /\ UNCHANGED aVars
    /\ UNCHANGED pVars

\* rag_search has returned: its result is the observation of the step
KnowledgeBaseReturns ==
    /\ qpc = "q_tool"
    /\ rpc = "r_done"
    /\ steps' = Append(steps, [tool |-> KB, obs |-> rret])
    /\ qpc' = "q_agent"
    /\ rpc' = "r_idle"
    /\ query' = <<>>
    /\ mode' = "none"
    /\ related_queries' = <<>>
    /\ vi' = 0
    /\ all_docs' = <<>>
    /\ seen_content' = {}
    /\ docs' = <<>>
    /\ llm_calls' = 0
    /\ completion' = <<>>
    /\ context' = <<>>
    /\ rret' = <<>>
    /\ UNCHANGED <<scope, lay, vsReady, index>>
    /\ UNCHANGED <<question, final, output, registry, qret>>
    /\ UNCHANGED aVars
    /\ UNCHANGED pVars

\* the agent picks a visualization tool
AgentCallsMapTool ==
    /\ AtAgent
    /\ rpc = "r_idle"
    /\ Len(steps) < MaxAgentSteps
    /\ \E r \in {"map", "text"} :
          LET u == Cardinality(registry) + 1
          IN /\ registry' = IF r = "map" THEN registry \cup {u} ELSE registry
             /\ steps' = Append(steps,
                    [tool |-> "analyze_critical_infrastructure",
                     obs |-> IF r = "map" THEN CisiReport(u) ELSE CisiTextOnly])
    /\ qpc' = "q_agent"
    /\ UNCHANGED <<question, final, output, qret, scope>>
    /\ UNCHANGED ragVars
    /\ UNCHANGED aVars
    /\ UNCHANGED pVars

\* decision_support_tool: the formatted analysis, text written by the completion
\* service, which may itself carry citation markers and the word References
DecisionAnalyses == { <<Word(10)>>, <<Word(10), Sup(1), RefWord>> }

\* the agent picks decision_support_tool
AgentCallsDecisionSupport ==
    /\ AtAgent
    /\ rpc = "r_idle"
    /\ Len(steps) < MaxAgentSteps
    /\ \E analysis \in DecisionAnalyses :
          steps' = Append(steps, [tool |-> "decision_support_tool", obs |-> analysis])
    /\ qpc' = "q_agent"
    /\ UNCHANGED <<question, final, output, registry, qret, scope>>
    /\ UNCHANGED ragVars
    /\ UNCHANGED aVars
    /\ UNCHANGED pVars

\* agent_executor.invoke returns (line 461)
AgentFinishes ==
    /\ AtAgent
    /\ rpc = "r_idle"
    /\ \E f \in FinalAnswers(steps) : final' = f
    /\ qpc' = "q_verify"
    /\ UNCHANGED <<question, steps, output, registry, qret, scope>>
    /\ UNCHANGED ragVars
    /\ UNCHANGED aVars
    /\ UNCHANGED pVars

\* variant: the exception of agent_executor.invoke leaves query()
AgentRaisesEscapes ==
    /\ AtAgent
    /\ rpc = "r_idle"
    /\ qpc' = "q_raised"
    /\ UNCHANGED <<question, steps, final, output, registry, qret, scope>>
    /\ UNCHANGED ragVars
    /\ UNCHANGED aVars
    /\ UNCHANGED pVars

\* agent_executor.invoke raises: lines 510-512
AgentRaises ==
    /\ AtAgent
    /\ rpc = "r_idle"
    /\ \E e \in AgentErrors : qret' = QueryErrorText(e)
    /\ qpc' = "q_done"
    /\ UNCHANGED <<question, steps, final, output, registry, scope>>
    /\ UNCHANGED ragVars
    /\ UNCHANGED aVars
    /\ UNCHANGED pVars

\* lines 462-508
QueryVerifies ==
    /\ qpc = "q_verify"
    /\ output' = VerifyCitations(steps, 1, final)
    /\ qret' = PostProcess(output', steps, registry)
    /\ qpc' = "q_done"
    /\ UNCHANGED <<question, steps, final, registry, scope>>
    /\ UNCHANGED ragVars
    /\ UNCHANGED aVars
    /\ UNCHANGED pVars

Init ==
    /\ scope = "query"
    /\ lay \in QueryLayouts
    /\ vsReady \in BOOLEAN
    /\ rpc = "r_idle"
    /\ query = <<>>
    /\ RagLocalsInit
    /\ qpc = "q_start"
    /\ question \in QueryQuestions
    /\ QueryLocalsInit
    /\ AnalyzerIdle
    /\ PmesiiIdle

Next ==
    \/ RagNotInitialized
    \/ RagMMR
    \/ RagFallback
    \/ RagVariant
    \/ RagNoInfo
    \/ RagBalance
    \/ RagAnswer
    \/ RagCompletionFails
    \/ QueryInfrastructure
    \/ QueryMap
    \/ AgentCallsKnowledgeBase
    \/ KnowledgeBaseReturns
    \/ AgentCallsMapTool
    \/ AgentCallsDecisionSupport
    \/ AgentFinishes
    \/ AgentRaises
    \/ QueryVerifies

Spec == Init /\ [][Next]_vars

(***************************************************************************)
(* CISIAnalyzer (src/src/analysis/cisi_analyzer.py): the raster crop       *)
(***************************************************************************)
\* a readable crop of rows x cols cells: `base` everywhere except on the cell
\* sets A and B, which hold va and vb
Raster(rows, cols, base, A, va, B, vb) ==
    [ readable |-> TRUE, rows |-> rows, cols |-> cols,
      cell |-> [ c \in (0..(rows - 1)) \X (0..(cols - 1)) |->
                   IF c \in A THEN va ELSE IF c \in B THEN vb ELSE base ] ]

\* rasterio.open or mask() raises
Unreadable == [ readable |-> FALSE, rows |-> 0, cols |-> 0, cell |-> <<>> ]

Cells(d) == (0..(d.rows - 1)) \X (0..(d.cols - 1))

\* the cells of a rectangle of h x w cells with top-left corner <<r, c>>
Block(r, c, h, w) == (r..(r + h - 1)) \X (c..(c + w - 1))

\* position of a cell in C (row-major) order
Ravel(d, c) == c[1] * d.cols + c[2]

\* data[data > 0]: the positive values in row-major order
ValidData(d) ==
    LET flat == [ i \in 1..(d.rows * d.cols) |->
                    d.cell[<<(i - 1) \div d.cols, (i - 1) % d.cols>>] ]
    IN SelectSeq(flat, LAMBDA v : v > 0)

(***************************************************************************)
(* CISIAnalyzer: zonal statistics (lines 67-121)                           *)
(***************************************************************************)
DefaultThresholdPercentile == 90
DefaultMinClusterSize == 5
DefaultMaxHotspots == 10
Percent == 100

\* a float, kept exact as a fraction
Ratio(num, den) == [num |-> num, den |-> den]

RECURSIVE SumSeq(_)
SumSeq(a) == IF a = <<>> THEN 0 ELSE Head(a) + SumSeq(Tail(a))

SumSquares(a) == SumSeq([i \in DOMAIN a |-> a[i] * a[i]])

\* the element at 0-based position k of the sorted values
KthSmallest(a, k) ==
    CHOOSE v \in { a[i] : i \in DOMAIN a } :
        /\ Cardinality({ i \in DOMAIN a : a[i] <= v }) > k
        /\ Cardinality({ i \in DOMAIN a : a[i] < v }) <= k

\* np.percentile(a, q), linear interpolation between the two closest ranks
Percentile(a, q) ==
    LET n == Len(a)
        pos == q * (n - 1)
        lo == pos \div Percent
        hi == Min(lo + 1, n - 1)
    IN Ratio(Percent * KthSmallest(a, lo)
               + (pos % Percent) * (KthSmallest(a, hi) - KthSmallest(a, lo)),
             Percent)

\* np.std(a): the root of the population variance, kept as the variance
StdOf(a) == [ root_of |-> Ratio(Len(a) * SumSquares(a) - SumSeq(a) * SumSeq(a),
                                Len(a) * Len(a)) ]

\* the record of lines 93-101
ZeroStatistics ==
    [ mean |-> Ratio(0, 1), median |-> Ratio(0, 1), std |-> [root_of |-> Ratio(0, 1)],
      min |-> Ratio(0, 1), max |-> Ratio(0, 1), sum |-> Ratio(0, 1), count |-> 0 ]

\* the record of lines 103-114
Statistics(valid_data) ==
    [ mean |-> Ratio(SumSeq(valid_data), Len(valid_data)),
      median |-> Percentile(valid_data, 50),
      std |-> StdOf(valid_data),
      min |-> Ratio(KthSmallest(valid_data, 0), 1),
      max |-> Ratio(KthSmallest(valid_data, Len(valid_data) - 1), 1),
      sum |-> Ratio(SumSeq(valid_data), 1),
      count |-> Len(valid_data),
      percentile_75 |-> Percentile(valid_data, 75),
      percentile_90 |-> Percentile(valid_data, 90),
      percentile_95 |-> Percentile(valid_data, 95) ]

\* what a call gives: a value, or an exception
Returns(v) == [raised |-> FALSE, value |-> v]
Raises == [raised |-> TRUE, value |-> <<>>]

\* compute_zonal_statistics(bounds) on the crop d
ComputeZonalStatistics(d) ==
    IF ~d.readable THEN Raises
    ELSE IF Len(ValidData(d)) = 0 THEN Returns(ZeroStatistics)
    ELSE Returns(Statistics(ValidData(d)))

(***************************************************************************)
(* CISIAnalyzer: hotspot detection (lines 123-209)                         *)
(***************************************************************************)
\* cells that touch along an edge: the default structure of ndimage.label
Adjacent(c1, c2) ==
    \/ c1[1] = c2[1] /\ (c1[2] = c2[2] + 1 \/ c2[2] = c1[2] + 1)
    \/ c1[2] = c2[2] /\ (c1[1] = c2[1] + 1 \/ c2[1] = c1[1] + 1)

RECURSIVE Grow(_, _)
\* the connected component of hotspot_mask that holds the cells of `cluster`
Grow(cluster, hotspot_mask) ==
    LET next == cluster \cup { c \in hotspot_mask : \E b \in cluster : Adjacent(b, c) }
    IN IF next = cluster THEN cluster ELSE Grow(next, hotspot_mask)

FirstCell(d, cells) == CHOOSE c \in cells : \A b \in cells : Ravel(d, c) <= Ravel(d, b)

RECURSIVE Label(_, _, _)
\* ndimage.label(hotspot_mask): the components, numbered in row-major order of
\* their first cell
Label(d, hotspot_mask, clusters) ==
    IF hotspot_mask = {} THEN clusters
    ELSE LET cluster == Grow({FirstCell(d, hotspot_mask)}, hotspot_mask)
         IN Label(d, hotspot_mask \ cluster, Append(clusters, cluster))

RECURSIVE SumCoord(_, _)
\* sum of the k-th coordinate of the cells of a cluster
SumCoord(cluster, k) ==
    IF cluster = {} THEN 0
    ELSE LET c == CHOOSE x \in cluster : TRUE
         IN c[k] + SumCoord(cluster \ {c}, k)

\* rasterio.transform.xy(out_transform, row, col): the coordinates of a pixel
XY(row, col) == [lon |-> [of_col |-> col], lat |-> [of_row |-> row]]

\* the dictionary of lines 174-195 for one cluster
Hotspot(d, cluster, rank) ==
    LET cluster_size == Cardinality(cluster)
        center_y == SumCoord(cluster, 1) \div cluster_size
        center_x == SumCoord(cluster, 2) \div cluster_size
    IN [ lat |-> XY(center_y, center_x).lat,
         lon |-> XY(center_y, center_x).lon,
         intensity |-> d.cell[<<center_y, center_x>>],
         cluster_size |-> cluster_size,
         rank |-> rank ]

RECURSIVE CollectHotspots(_, _, _, _)
\* the loop of lines 166-195 over the labelled clusters
CollectHotspots(d, clusters, min_cluster_size, found) ==
    IF clusters = <<>> THEN found
    ELSE CollectHotspots(d, Tail(clusters), min_cluster_size,
             IF Cardinality(Head(clusters)) < min_cluster_size THEN found
             ELSE Append(found, Hotspot(d, Head(clusters), Len(found) + 1)))

\* insertion behind the entries of greater or equal intensity
InsertByIntensity(sorted, h) ==
    LET k == Cardinality({ i \in DOMAIN sorted : sorted[i].intensity >= h.intensity })
    IN SubSeq(sorted, 1, k) \o <<h>> \o SubSeq(sorted, k + 1, Len(sorted))

RECURSIVE SortByIntensity(_)
\* hotspots.sort(key=lambda x: x["intensity"], reverse=True): a stable sort
SortByIntensity(found) ==
    IF found = <<>> THEN <<>>
    ELSE InsertByIntensity(SortByIntensity(SubSeq(found, 1, Len(found) - 1)),
                           found[Len(found)])

\* variant: the ranks given while collecting are kept after the sort
UpdateRanksKept(found) == found

\* lines 201-202
UpdateRanks(found) == [ i \in DOMAIN found |-> [found[i] EXCEPT !.rank = i] ]

\* lines 155-205, for a crop with valid data
HotspotsAbove(d, threshold_percentile, min_cluster_size) ==
    LET threshold == Percentile(ValidData(d), threshold_percentile)
        hotspot_mask == { c \in Cells(d) : d.cell[c] * threshold.den > threshold.num }
    IN UpdateRanks(SortByIntensity(
           CollectHotspots(d, Label(d, hotspot_mask, <<>>), min_cluster_size, <<>>)))

\* variant: the test for an empty valid_data is missing, np.percentile raises
DetectHotspotsUnguarded(d, threshold_percentile, min_cluster_size) ==
    IF ~d.readable \/ Len(ValidData(d)) = 0 THEN Raises
    ELSE Returns(HotspotsAbove(d, threshold_percentile, min_cluster_size))

\* detect_hotspots(bounds, threshold_percentile, min_cluster_size) on the crop d
DetectHotspots(d, threshold_percentile, min_cluster_size) ==
    IF ~d.readable THEN Raises
    ELSE IF Len(ValidData(d)) = 0 THEN Returns(<<>>)
    ELSE Returns(HotspotsAbove(d, threshold_percentile, min_cluster_size))

(***************************************************************************)
(* CISIAnalyzer.analyze_country (lines 387-432)                            *)
(***************************************************************************)
GridSide == 10         \* side of the large crops
SmallCols == 4         \* width of the one-row crops

SmallValues == {-1, 0, 1, 2}

\* every one-row crop over SmallValues
SmallCrops ==
    { [ readable |-> TRUE, rows |-> 1, cols |-> SmallCols, cell |-> f ] :
        f \in [ (0..0) \X (0..(SmallCols - 1)) -> SmallValues ] }

\* large crops: a background with up to two clusters of raised intensity
LargeCrops ==
    { Raster(GridSide, GridSide, 0, {}, 0, {}, 0),
      Raster(GridSide, GridSide, -1, Block(0, 0, 2, 2), 0, {}, 0),
      Raster(GridSide, GridSide, 0, Block(0, 0, 1, 5), 3, {}, 0),
      Raster(GridSide, GridSide, 1, Block(2, 2, 2, 2), 3, {}, 0),
      Raster(GridSide, GridSide, 1, Block(1, 1, 1, 5), 3, Block(5, 2, 5, 1), 2),
      Raster(GridSide, GridSide, 1, Block(1, 1, 1, 5), 2, Block(5, 2, 5, 1), 3),
      Raster(GridSide, GridSide, 1, Block(1, 1, 1, 5), 2, Block(5, 2, 5, 1), 2) }

Crops == SmallCrops \cup LargeCrops \cup {Unreadable}

\* countries of the Natural Earth table, and a name that is not in it
KnownCountries == {"Mali"}
Countries == KnownCountries \cup {"Atlantis"}

\* get_country_bounds gives None
NoBounds == <<>>

\* country.total_bounds as a tuple (minx, miny, maxx, maxy)
TotalBounds(d) == <<0, 0, d.cols, d.rows>>

\* reverse_geocode(lat, lon): a place name, or the coordinates as text
ReverseGeocode(lat, lon, named) ==
    IF named THEN <<"place", lat, lon>> ELSE <<"Location", lat, lon>>

\* lines 402-407: the country is not found, or the lookup failed
AnalyzeCountryNotFound ==
    /\ apc = "a_start"
    /\ bounds' = NoBounds
    /\ aret' = [error |-> country_name, country |-> country_name]
    /\ apc' = "a_done"
    /\ UNCHANGED <<country_name, max_hotspots, data, stats, hotspots, report, scope>>
    /\ UNCHANGED ragVars
    /\ UNCHANGED qVars
    /\ UNCHANGED pVars

\* line 402: get_country_bounds finds the country
AnalyzeCountryBounds ==
    /\ apc = "a_start"
    /\ country_name \in KnownCountries
    /\ bounds' = TotalBounds(data)
    /\ apc' = "a_stats"
    /\ UNCHANGED <<country_name, max_hotspots, data, stats, hotspots, aret, report, scope>>
    /\ UNCHANGED ragVars
    /\ UNCHANGED qVars
    /\ UNCHANGED pVars

\* line 410; an exception of compute_zonal_statistics leaves analyze_country
AnalyzeCountryStatistics ==
    /\ apc = "a_stats"
    /\ LET r == ComputeZonalStatistics(data)
       IN IF r.raised
          THEN apc' = "a_raised" /\ UNCHANGED stats
          ELSE apc' = "a_hotspots" /\ stats' = r.value
    /\ UNCHANGED <<country_name, max_hotspots, data, bounds, hotspots, aret, report, scope>>
    /\ UNCHANGED ragVars
    /\ UNCHANGED qVars
    /\ UNCHANGED pVars

\* line 413
AnalyzeCountryHotspots ==
    /\ apc = "a_hotspots"
    /\ LET r == DetectHotspots(data, DefaultThresholdPercentile, DefaultMinClusterSize)
       IN IF r.raised
          THEN apc' = "a_raised" /\ UNCHANGED hotspots
          ELSE apc' = "a_result" /\ hotspots' = r.value
    /\ UNCHANGED <<country_name, max_hotspots, data, bounds, stats, aret, report, scope>>
    /\ UNCHANGED ragVars
    /\ UNCHANGED qVars
    /\ UNCHANGED pVars

\* lines 415-432; the entries of top_hotspots are the entries of hotspots
AnalyzeCountryResult ==
    /\ apc = "a_result"
    /\ \E named \in BOOLEAN :
          LET top_hotspots ==
                  [ i \in 1..Min(max_hotspots, Len(hotspots)) |->
                      [ lat |-> hotspots[i].lat, lon |-> hotspots[i].lon,
                        intensity |-> hotspots[i].intensity,
                        cluster_size |-> hotspots[i].cluster_size,
                        rank |-> hotspots[i].rank,
                        location_name |->
                            ReverseGeocode(hotspots[i].lat, hotspots[i].lon, named) ] ]
          IN /\ hotspots' = top_hotspots
                              \o SubSeq(hotspots, Len(top_hotspots) + 1, Len(hotspots))
             /\ aret' = [ country |-> country_name,
                          statistics |-> stats,
                          hotspots |-> top_hotspots,
                          total_hotspots_detected |-> Len(hotspots),
                          bounds |-> bounds ]
    /\ apc' = "a_done"
    /\ UNCHANGED <<country_name, max_hotspots, data, bounds, stats, report, scope>>
    /\ UNCHANGED ragVars
    /\ UNCHANGED qVars
    /\ UNCHANGED pVars

\* percentile and cluster-size arguments of a direct detect_hotspots call
ThresholdPercentiles == {50, DefaultThresholdPercentile}
MinClusterSizes == {1, DefaultMinClusterSize}

\* detect_hotspots(bounds, threshold_percentile, min_cluster_size) called on its
\* own on the bounds of the crop (lines 123-209)
DetectHotspotsCall ==
    /\ apc = "a_start"
    /\ \E threshold_percentile \in ThresholdPercentiles,
          min_cluster_size \in MinClusterSizes :
          LET r == DetectHotspots(data, threshold_percentile, min_cluster_size)
          IN IF r.raised
             THEN apc' = "d_raised" /\ UNCHANGED hotspots
             ELSE apc' = "a_detected" /\ hotspots' = r.value
    /\ bounds' = TotalBounds(data)
    /\ UNCHANGED <<country_name, max_hotspots, data, stats, aret, report, scope>>
    /\ UNCHANGED ragVars
    /\ UNCHANGED qVars
    /\ UNCHANGED pVars

(***************************************************************************)
(* analyze_critical_infrastructure (src/src/tools/cisi_tool.py, 28-145)    *)
(***************************************************************************)
\* f"{x:.2f}" of a fraction: the value in hundredths, rounded to the nearest
Hundredths(r) == (2 * 100 * r.num + r.den) \div (2 * r.den)

\* f"{x:.2f}" of a standard deviation kept as its variance
RootHundredths(v) ==
    LET scaled == (v.root_of.num * 10000) \div v.root_of.den
    IN CHOOSE s \in 0..(scaled + 1) :
          /\ s = 0 \/ (2 * s - 1) * (2 * s - 1) <= 4 * scaled
          /\ 4 * scaled < (2 * s + 1) * (2 * s + 1)

\* str.title() on the country names in use
Title(name) ==
    CASE name = "mali" -> "Mali"
      [] name = "atlantis" -> "Atlantis"
      [] OTHER -> name

\* the keys of stats the report reads, in the order of lines 72-119
StatsKeysRead ==
    << "mean", "median", "max", "std", "count", "percentile_95", "min", "percentile_90" >>

\* stats[key] for the first key read that the record lacks (0 if none): KeyError
FirstMissingKey(statistics) ==
    LET missing == { i \in DOMAIN StatsKeysRead : StatsKeysRead[i] \notin DOMAIN statistics }
    IN IF missing = {} THEN 0 ELSE CHOOSE i \in missing : \A j \in missing : i <= j

\* lines 80-85
Density(statistics) ==
    IF statistics.mean.num > 50 * statistics.mean.den THEN "high"
    ELSE IF statistics.mean.num > 20 * statistics.mean.den THEN "moderate"
    ELSE "low"

\* lines 87-90: std > mean * 0.5, both sides being non-negative
Distribution(statistics) ==
    IF 4 * statistics.std.root_of.num * statistics.mean.den * statistics.mean.den
          > statistics.mean.num * statistics.mean.num * statistics.std.root_of.den
    THEN "uneven" ELSE "even"

\* text_report (lines 66-124) of an analysis result
TextReport(name, result) ==
    LET statistics == result.statistics
    IN [ kind |-> "report",
         title |-> Title(name),
         mean |-> Hundredths(statistics.mean),
         median |-> Hundredths(statistics.median),
         max |-> Hundredths(statistics.max),
         std |-> RootHundredths(statistics.std),
         count |-> statistics.count,
         percentile_95 |-> Hundredths(statistics.percentile_95),
         density |-> Density(statistics),
         distribution |-> Distribution(statistics),
         hotspots |-> [ i \in DOMAIN result.hotspots |->
                          [ location_name |-> result.hotspots[i].location_name,
                            lat |-> result.hotspots[i].lat,
                            lon |-> result.hotspots[i].lon,
                            intensity |-> 100 * result.hotspots[i].intensity,
                            cluster_size |-> result.hotspots[i].cluster_size ] ],
         total |-> result.total_hotspots_detected,
         min |-> Hundredths(statistics.min),
         percentile_90 |-> Hundredths(statistics.percentile_90),
         map_id |-> 0 ]

\* "Error: {result['error']}" (line 61)
ErrorResult(result) == [ kind |-> "error", about |-> result.error ]

\* "Error analyzing critical infrastructure: {e}" (lines 142-145)
AnalysisFailure(e) == [ kind |-> "failure", about |-> e ]

\* "CISI data not available: {e}" (lines 138-141)
DataNotAvailable == [ kind |-> "unavailable", about |-> "raster" ]

\* lines 57, 138-145: analyze_country raised
ToolAnalysisRaised ==
    /\ apc = "a_raised"
    /\ report' \in { DataNotAvailable, AnalysisFailure("raster") }
    /\ apc' = "t_done"
    /\ UNCHANGED <<country_name, max_hotspots, data, bounds, stats, hotspots, aret, scope>>
    /\ UNCHANGED ragVars
    /\ UNCHANGED qVars
    /\ UNCHANGED pVars

\* lines 57-61: analyze_country returned an error result
ToolErrorResult ==
    /\ apc = "a_done"
    /\ "error" \in DOMAIN aret
    /\ report' = ErrorResult(aret)
    /\ apc' = "t_done"
    /\ UNCHANGED <<country_name, max_hotspots, data, bounds, stats, hotspots, aret, scope>>
    /\ UNCHANGED ragVars
    /\ UNCHANGED qVars
    /\ UNCHANGED pVars

\* lines 63-136 and 142-145: the report is built from the result; a key the
\* statistics record lacks raises KeyError, which the last handler turns into
\* its error string; the map is registered when it can be drawn
ToolReport ==
    /\ apc = "a_done"
    /\ "error" \notin DOMAIN aret
    /\ IF FirstMissingKey(aret.statistics) # 0
       THEN /\ report' = AnalysisFailure(StatsKeysRead[FirstMissingKey(aret.statistics)])
            /\ UNCHANGED registry
       ELSE \E drawn \in BOOLEAN :
               LET map_id == Cardinality(registry) + 1
               IN IF drawn
                  THEN /\ report' = [TextReport(country_name, aret) EXCEPT !.map_id = map_id]
                       /\ registry' = registry \cup {map_id}
                  ELSE /\ report' = TextReport(country_name, aret)
                       /\ UNCHANGED registry
    /\ apc' = "t_done"
    /\ UNCHANGED <<country_name, max_hotspots, data, bounds, stats, hotspots, aret, scope>>
    /\ UNCHANGED <<qpc, question, steps, final, output, qret>>
    /\ UNCHANGED ragVars
    /\ UNCHANGED pVars

\* analyze_country called on a country whose crop is one of Crops
InitCisi ==
    /\ scope = "cisi"
    /\ lay \in QueryLayouts
    /\ vsReady = TRUE
    /\ rpc = "r_idle"
    /\ query = <<>>
    /\ RagLocalsInit
    /\ qpc = "q_idle"
    /\ question = <<>>
    /\ QueryLocalsInit
    /\ apc = "a_start"
    /\ country_name \in Countries
    /\ max_hotspots \in {1, DefaultMaxHotspots}
    /\ data \in Crops
    /\ bounds = NoBounds
    /\ stats = <<>>
    /\ hotspots = <<>>
    /\ aret = <<>>
    /\ report = <<>>
    /\ PmesiiIdle

NextCisi ==
    \/ AnalyzeCountryNotFound
    \/ AnalyzeCountryBounds
    \/ AnalyzeCountryStatistics
    \/ AnalyzeCountryHotspots
    \/ AnalyzeCountryResult
    \/ DetectHotspotsCall
    \/ ToolAnalysisRaised
    \/ ToolErrorResult
    \/ ToolReport

SpecCisi == InitCisi /\ [][NextCisi]_vars

(***************************************************************************)
(* PMESII grouping cache (src/scripts/pmesii_analysis.py, lines 20-119):   *)
(* group_indicators_by_pmesii called by two concurrent requests, and       *)
(* clear_pmesii_cache                                                      *)
(***************************************************************************)
MaxClears == 2         \* clear_pmesii_cache calls within one behaviour

\* the two concurrent requests
Calls == {1, 2}

\* the keys of PMESII_DOMAINS
PmesiiDomains ==
    {"Political", "Military", "Economic", "Social", "Infrastructure", "Information", "Geo"}

\* the indicators argument
Indicators == <<"gdp", "army">>

\* country strings a caller may pass
CountryStrings == {"Mali", "MALI", "Chad", ""}

\* str.lower() on the country strings in use
LowerCountry(name) ==
    CASE name = "Mali" -> "mali"
      [] name = "MALI" -> "mali"
      [] name = "Chad" -> "chad"
      [] OTHER -> name

\* a grouping as json.loads gives it: every domain with its list of indicators
Grouping(gdp_domain, army_domain) ==
    [ domain \in PmesiiDomains |->
        SelectSeq(Indicators, LAMBDA ind :
            \/ ind = "gdp" /\ domain = gdp_domain
            \/ ind = "army" /\ domain = army_domain) ]

\* groupings the completion service may answer with (temperature 0.1)
ParsedGroupings == { Grouping("Economic", "Military"), Grouping("Social", "Political") }

\* the grouping an earlier request has left in the cache
CachedBefore == Grouping("Geo", "Military")

\* {}: the value of the except branch (line 102)
EmptyGrouping == [ domain \in {} |-> <<>> ]

\* _PMESII_CACHE before the two requests
InitialCaches ==
    { [ key \in keys |-> CachedBefore ] : keys \in { {}, {"chad"}, {"mali", "chad"} } }

\* cache_key = country.lower() of a call
CacheKey(c) == LowerCountry(country[c])

\* variant: the entry is updated in place, domain by domain, and the write is
\* cut short after the domains up to Economic
StoreGroupingInPlace(cch, key, g) ==
    [ k \in DOMAIN cch \cup {key} |->
        IF k # key THEN cch[k]
        ELSE IF key \in DOMAIN cch
        THEN [ domain \in PmesiiDomains |->
                 IF domain \in {"Political", "Military", "Economic"}
                 THEN g[domain] ELSE cch[key][domain] ]
        ELSE g ]

\* _PMESII_CACHE[cache_key] = grouped (line 95)
StoreGrouping(cch, key, g) ==
    [ k \in DOMAIN cch \cup {key} |-> IF k = key THEN g ELSE cch[k] ]

\* lines 49-50: the cache test
GroupCheckCache(c) ==
    /\ ppc[c] = "p_start"
    /\ ppc' = [ppc EXCEPT ![c] = IF use_cache[c] /\ CacheKey(c) \in DOMAIN cache
                                 THEN "p_hit" ELSE "p_llm"]
    /\ UNCHANGED <<cache, country, use_cache, grouped, pret, clears, clear_country, scope>>
    /\ UNCHANGED ragVars
    /\ UNCHANGED qVars
    /\ UNCHANGED aVars

\* line 52: return _PMESII_CACHE[cache_key]; KeyError when the entry has been
\* removed since the test
GroupReturnCached(c) ==
    /\ ppc[c] = "p_hit"
    /\ IF CacheKey(c) \in DOMAIN cache
       THEN /\ pret' = [pret EXCEPT ![c] = Returns(cache[CacheKey(c)])]
            /\ ppc' = [ppc EXCEPT ![c] = "p_done"]
       ELSE /\ ppc' = [ppc EXCEPT ![c] = "p_raised"]
            /\ UNCHANGED pret
    /\ UNCHANGED <<cache, country, use_cache, grouped, clears, clear_country, scope>>
    /\ UNCHANGED ragVars
    /\ UNCHANGED qVars
    /\ UNCHANGED aVars

\* lines 53-91 and 100-102: the client is built (outside the try), the
\* completion is requested and parsed; a failure inside the try returns {};
\* without use_cache the grouping is returned at once (line 98)
GroupCompletion(c) ==
    /\ ppc[c] = "p_llm"
    /\ \E outcome \in {"parsed", "failed", "no_client"}, g \in ParsedGroupings :
          CASE outcome = "parsed" ->
                 /\ grouped' = [grouped EXCEPT ![c] = g]
                 /\ IF use_cache[c]
                    THEN /\ ppc' = [ppc EXCEPT ![c] = "p_store"]
                         /\ UNCHANGED pret
                    ELSE /\ ppc' = [ppc EXCEPT ![c] = "p_done"]
                         /\ pret' = [pret EXCEPT ![c] = Returns(g)]
            [] outcome = "failed" ->
                 /\ pret' = [pret EXCEPT ![c] = Returns(EmptyGrouping)]
                 /\ ppc' = [ppc EXCEPT ![c] = "p_failed"]
                 /\ UNCHANGED grouped
            [] OTHER ->
                 /\ ppc' = [ppc EXCEPT ![c] = "p_raised"]
                 /\ UNCHANGED <<grouped, pret>>
    /\ UNCHANGED <<cache, country, use_cache, clears, clear_country, scope>>
    /\ UNCHANGED ragVars
    /\ UNCHANGED qVars
    /\ UNCHANGED aVars

\* lines 94-98: the grouping is stored and returned
GroupStore(c) ==
    /\ ppc[c] = "p_store"
    /\ cache' = StoreGrouping(cache, CacheKey(c), grouped[c])
    /\ pret' = [pret EXCEPT ![c] = Returns(grouped[c])]
    /\ ppc' = [ppc EXCEPT ![c] = "p_done"]
    /\ UNCHANGED <<country, use_cache, grouped, clears, clear_country, scope>>
    /\ UNCHANGED ragVars
    /\ UNCHANGED qVars
    /\ UNCHANGED aVars

\* the arguments of clear_pmesii_cache: no argument (None), or a string
NoCountryArgument == [given |-> FALSE, name |-> ""]
ClearArguments ==
    { NoCountryArgument } \cup { [given |-> TRUE, name |-> n] : n \in CountryStrings }

\* `if country:` (line 112): None and the empty string are false
Truthy(arg) == arg.given /\ arg.name # ""

\* clear_pmesii_cache (lines 105-119) applied to a cache
ClearPmesiiCache(cch, arg) ==
    IF Truthy(arg)
    THEN [ k \in DOMAIN cch \ {LowerCountry(arg.name)} |-> cch[k] ]
    ELSE [ k \in {} |-> CachedBefore ]

\* one clear_pmesii_cache call, at any moment of the two requests
ClearPmesiiCacheCall ==
    /\ scope = "pmesii"
    /\ clears < MaxClears
    /\ \E arg \in ClearArguments :
          /\ cache' = ClearPmesiiCache(cache, arg)
          /\ clear_country' = arg
    /\ clears' = clears + 1
    /\ UNCHANGED <<ppc, country, use_cache, grouped, pret, scope>>
    /\ UNCHANGED ragVars
    /\ UNCHANGED qVars
    /\ UNCHANGED aVars

\* two requests about to call group_indicators_by_pmesii
InitPmesii ==
    /\ scope = "pmesii"
    /\ lay \in QueryLayouts
    /\ vsReady = TRUE
    /\ rpc = "r_idle"
    /\ query = <<>>
    /\ RagLocalsInit
    /\ qpc = "q_idle"
    /\ question = <<>>
    /\ QueryLocalsInit
    /\ AnalyzerIdle
    /\ cache \in InitialCaches
    /\ ppc = [c \in Calls |-> "p_start"]
    /\ country \in [Calls -> CountryStrings \ {""}]
    /\ use_cache \in [Calls -> BOOLEAN]
    /\ grouped = [c \in Calls |-> EmptyGrouping]
    /\ pret = [c \in Calls |-> Returns(EmptyGrouping)]
    /\ clears = 0
    /\ clear_country = NoCountryArgument

NextPmesii ==
    \/ \E c \in Calls : GroupCheckCache(c)
    \/ \E c \in Calls : GroupReturnCached(c)
    \/ \E c \in Calls : GroupCompletion(c)
    \/ \E c \in Calls : GroupStore(c)
    \/ ClearPmesiiCacheCall

SpecPmesii == InitPmesii /\ [][NextPmesii]_vars

(***************************************************************************)
(* Vocabulary of the properties                                            *)
(***************************************************************************)
KeysOf(s) == { SourceKey(s[i]) : i \in DOMAIN s }

CountOf(s, key) == Cardinality({ i \in DOMAIN s : SourceKey(s[i]) = key })

\* the balancer has produced the WorkingSet of this invocation
BalancerDone == rpc = "r_llm"

\* pool positions holding the first document of their SourceKey
FirstPositions ==
    { p \in DOMAIN all_docs :
        \A q \in 1..(p - 1) : SourceKey(all_docs[q]) # SourceKey(all_docs[p]) }

\* the pool documents that are the second document of their SourceKey
SecondDocs ==
    { all_docs[p] : p \in { r \in DOMAIN all_docs :
        Cardinality({ q \in 1..(r - 1) : SourceKey(all_docs[q]) = SourceKey(all_docs[r]) }) = 1 } }

\* every pool position of `firsts` has its document in the WorkingSet, ahead of
\* every second document
FirstsBeforeSeconds(firsts) ==
    LET seconds == SecondDocs
        late == { j \in DOMAIN docs : docs[j] \in seconds }
        stop == IF late = {} THEN Len(docs) + 1
                ELSE CHOOSE j \in late : \A j2 \in late : j <= j2
    IN \A p \in firsts : \E i \in 1..(stop - 1) : docs[i] = all_docs[p]

(***************************************************************************)
(* C1: whenever the CandidatePool holds documents of at least 2 distinct   *)
(* SourceKeys, the WorkingSet chosen by the round-robin balancer holds     *)
(* documents of at least 2 distinct SourceKeys.                            *)
(***************************************************************************)
C1_NoStarvation ==
    (BalancerDone /\ Cardinality(KeysOf(all_docs)) >= 2)
        => Cardinality(KeysOf(docs)) >= 2

\* a pool whose first 15 documents all come from one source and which has a second source
C1_Witness ==
    /\ BalancerDone
    /\ Len(all_docs) > WorkingSetBudget
    /\ Cardinality(KeysOf(Take(all_docs, WorkingSetBudget))) = 1
    /\ Cardinality(KeysOf(all_docs)) = 2
    /\ Cardinality(KeysOf(docs)) = 2

C7_CountsWithinOne ==
    BalancerDone =>
        \A k1, k2 \in KeysOf(docs) : CountOf(docs, k1) - CountOf(docs, k2) <= 1

(***************************************************************************)
(* C7 amended: for any two SourceKeys present in the WorkingSet, the       *)
(* counts differ by at most 1 unless every pool document of the SourceKey  *)
(* with fewer documents has been selected.                                 *)
(***************************************************************************)
C7_BalancedUnlessExhausted ==
    BalancerDone =>
        \A k1, k2 \in KeysOf(docs) :
            CountOf(docs, k1) - CountOf(docs, k2) > 1
                => CountOf(docs, k2) = CountOf(all_docs, k2)

\* a source selected at least 2 more times than another one
C7_Witness ==
    /\ BalancerDone
    /\ \E k1, k2 \in KeysOf(docs) : CountOf(docs, k1) - CountOf(docs, k2) > 1

(***************************************************************************)
(* C8 as stated: when the selection finishes, the WorkingSet holds 15      *)
(* documents or every document of the CandidatePool.                       *)
(***************************************************************************)
C8_FilledOrExhausted ==
    BalancerDone => (Len(docs) = WorkingSetBudget \/ Len(docs) = Len(all_docs))

(***************************************************************************)
(* C8 amended: when the selection finishes, the WorkingSet holds 15        *)
(* documents, or it holds of every SourceKey all its pool documents up to  *)
(* the per-source cap (8 for at most 2 SourceKeys, 4 for 3 or 4, else 2).  *)
(***************************************************************************)
StatedCap(n) == IF n <= 2 THEN 8 ELSE IF n <= 4 THEN 4 ELSE 2

C8_FilledOrCapped ==
    BalancerDone =>
        \/ Len(docs) = WorkingSetBudget
        \/ /\ Len(docs) < WorkingSetBudget
           /\ \A key \in KeysOf(all_docs) :
                 CountOf(docs, key) =
                     Min(CountOf(all_docs, key), StatedCap(Cardinality(KeysOf(all_docs))))

\* the cap, not the budget or the pool, ended the selection
C8_Witness ==
    /\ BalancerDone
    /\ Len(docs) < WorkingSetBudget
    /\ Len(docs) < Len(all_docs)

(***************************************************************************)
(* C9: aggregating a variant list that contains a duplicate of the         *)
(* original question gives the same CandidatePool as aggregating the list  *)
(* without the duplicate, the retriever answering equal queries equally.   *)
(***************************************************************************)
LoopDone == rpc = "r_loop" /\ vi > VariantLimit

WithoutDuplicate(variants) ==
    <<Head(variants)>> \o SelectSeq(Tail(variants), LAMBDA v : v # Head(variants))

C9_DuplicateVariantIdempotent ==
    (LoopDone /\ \E i \in 2..Len(related_queries) : related_queries[i] = query)
        => all_docs = Aggregate(Take(WithoutDuplicate(related_queries), MaxVariants),
                                index, mode, <<>>, {})[1]

(***************************************************************************)
(* C10: the CandidatePool never holds two documents with the same content  *)
(* fingerprint (first 200 characters), and it lists the fetched documents  *)
(* in first-seen order, each fingerprint once.                             *)
(***************************************************************************)
\* docs[:15] of the i-th variant, once the loop has processed it
Batch(i) ==
    IF i < vi /\ i <= Len(related_queries) /\ index[<<mode, related_queries[i]>>].ok
    THEN Take(index[<<mode, related_queries[i]>>].docs, TopPerQuery)
    ELSE <<>>

Fetched == Batch(1) \o Batch(2) \o Batch(3)

C10_PoolUniqueFirstSeen ==
    LET F == Fetched
        P == { p \in DOMAIN F : \A q \in 1..(p - 1) : F[q].head # F[p].head }
    IN /\ \A i, j \in DOMAIN all_docs : i # j => all_docs[i].head # all_docs[j].head
       /\ Len(all_docs) = Cardinality(P)
       /\ \A p \in P : all_docs[Cardinality({ q \in P : q <= p })] = F[p]

\* a document fetched again under a later variant, and a different document with
\* the same first 200 characters, were both dropped
C10_Witness ==
    /\ vi > 2
    /\ \E p, q \in DOMAIN Fetched : p < q /\ Fetched[p] = Fetched[q]
    /\ \E p, q \in DOMAIN Fetched :
          p < q /\ Fetched[p].head = Fetched[q].head /\ Fetched[p] # Fetched[q]
    /\ Len(all_docs) < Len(Fetched)

(***************************************************************************)
(* Vocabulary of the verifier properties                                   *)
(***************************************************************************)
\* query() has run the verifier on an agent result and returned
Verified == qpc = "q_done" /\ Len(final) > 0

\* earliest knowledge_base_search step whose observation satisfies P (0 if none)
FirstKB(P(_)) ==
    LET hits == { i \in DOMAIN steps : steps[i].tool = KB /\ P(steps[i].obs) }
    IN IF hits = {} THEN 0 ELSE CHOOSE i \in hits : \A j \in hits : i <= j

HasBoth(text) == HasReferences(text) /\ HasInlineCitation(text)

IsPrefix(a, b) == Len(a) <= Len(b) /\ SubSeq(b, 1, Len(a)) = a

\* the text carries a references block: the header line followed by the list
HasReferencesBlock(text) == \E i \in DOMAIN text : text[i].k = "hdr"

ReferenceLines(text) == Cardinality({ i \in DOMAIN text : text[i].k = "refline" })

(***************************************************************************)
(* C3: when a knowledge_base_search observation contains the references    *)
(* marker and the agent's final output does not, query() drops the final   *)
(* output and answers with that observation (the earliest such one),       *)
(* verbatim; no error is returned to the caller.                           *)
(***************************************************************************)
C3_LostReferencesRecovered ==
    (Verified /\ FirstKB(HasReferences) # 0 /\ ~HasReferences(final))
        => /\ output = steps[FirstKB(HasReferences)].obs
           /\ output # final
           /\ IsPrefix(output, qret)
           /\ qret[1].k # "queryerror"

\* the agent kept the inline markers but dropped the references
C3_Witness ==
    /\ Verified
    /\ FirstKB(HasReferences) # 0
    /\ ~HasReferences(final)
    /\ HasInlineCitation(final)
    /\ qret = steps[FirstKB(HasReferences)].obs

(***************************************************************************)
(* C4 as stated: when a knowledge_base_search observation contains an      *)
(* inline citation marker and the final output contains none, query()      *)
(* answers with a knowledge_base_search observation in place of the final  *)
(* output, whether or not the observation and the final output contain the *)
(* references marker.                                                      *)
(***************************************************************************)
C4_LostInlineAlwaysRecovered ==
    (Verified /\ FirstKB(HasInlineCitation) # 0 /\ ~HasInlineCitation(final))
        => /\ output # final
           /\ \E i \in DOMAIN steps : steps[i].tool = KB /\ output = steps[i].obs

(***************************************************************************)
(* C4 amended: when a knowledge_base_search observation contains the       *)
(* references marker and an inline citation marker and the final output    *)
(* contains no inline marker, query() answers with a knowledge_base_search *)
(* observation in place of the final output: the earliest one with the     *)
(* references marker when the final output lacks that marker, otherwise    *)
(* the earliest one with both markers.  An observation without the         *)
(* references marker triggers nothing.                                     *)
(***************************************************************************)
C4_LostInlineRecoveredWhenReferenced ==
    (Verified /\ FirstKB(HasBoth) # 0 /\ ~HasInlineCitation(final))
        => /\ output # final
           /\ output = IF HasReferences(final)
                        THEN steps[FirstKB(HasBoth)].obs
                        ELSE steps[FirstKB(HasReferences)].obs

\* the final output still names the references but has lost the inline markers
C4_Witness ==
    /\ Verified
    /\ FirstKB(HasBoth) # 0
    /\ HasReferences(final)
    /\ ~HasInlineCitation(final)
    /\ output = steps[FirstKB(HasBoth)].obs

(***************************************************************************)
(* C5: whenever a knowledge_base_search step of the request produced an    *)
(* answer with a references block, the answer query() returns carries a    *)
(* references block, also after the MAP_ID/MAP post-processing.            *)
(***************************************************************************)
C5_ReferencesBlockKept ==
    (Verified /\ FirstKB(HasReferencesBlock) # 0) => HasReferencesBlock(qret)

(***************************************************************************)
(* C6: every inline citation marker <sup>[n]</sup> of an answer produced   *)
(* by rag_search, and of the answer query() returns after verification,    *)
(* has 1 <= n <= N, N being the number of lines of the references list.    *)
(***************************************************************************)
C6_CitationNumbersInRange ==
    /\ (rpc = "r_done" /\ HasReferencesBlock(rret))
          => ExtractCitations(rret) \subseteq 1..Len(docs)
    /\ (Verified /\ HasReferencesBlock(qret))
          => ExtractCitations(qret) \subseteq 1..ReferenceLines(qret)

(***************************************************************************)
(* Vocabulary of the failure properties of rag_search                      *)
(***************************************************************************)
\* rag_search has returned, the vector store being initialized
Returned == rpc = "r_done" /\ vsReady

\* the retriever the variant loop of this invocation uses
LoopRetriever == IF index[<<"mmr", query>>].ok THEN "mmr" ELSE "sim"

\* the variants the loop iterates over
LoopVariants == Take(ExpandQuery(query), MaxVariants)

\* the retrieval of the i-th variant gives documents
VariantGivesDocuments(i) ==
    LET o == index[<<LoopRetriever, LoopVariants[i]>>]
    IN o.ok /\ Len(o.docs) > 0

(***************************************************************************)
(* C11: when the retrieval of at least one query variant gives documents,  *)
(* the failure of any other retrieval of the same invocation, the one      *)
(* issued before the variant loop included, does not abort rag_search: it  *)
(* balances the documents of the variants that succeeded and issues the    *)
(* completion request.                                                     *)
(***************************************************************************)
C11_PartialFailureRecovered ==
    (Returned /\ \E i \in DOMAIN LoopVariants : VariantGivesDocuments(i))
        => /\ docs = SelectWorkingSet(
                        Aggregate(LoopVariants, index, LoopRetriever, <<>>, {})[1])
           /\ Len(docs) > 0
           /\ llm_calls = 1

(***************************************************************************)
(* C12: when every retrieval call of an invocation throws, or every call   *)
(* returns no document, rag_search returns the 'No relevant information    *)
(* found' answer, issues no completion request and returns no error        *)
(* string.                                                                 *)
(***************************************************************************)
\* the keys of `index` are the retrieval calls issued so far
EveryCallThrew == DOMAIN index # {} /\ \A key \in DOMAIN index : ~index[key].ok

EveryCallEmpty ==
    DOMAIN index # {} /\ \A key \in DOMAIN index : index[key].ok /\ Len(index[key].docs) = 0

C12_TotalFailureIsNoInfo ==
    (Returned /\ (EveryCallThrew \/ EveryCallEmpty))
        => /\ rret = NoInfoText
           /\ llm_calls = 0

(***************************************************************************)
(* Vocabulary of the citation index properties                             *)
(***************************************************************************)
\* rag_search has returned the answer of a completion request
Answered == rpc = "r_done" /\ llm_calls = 1 /\ Len(completion) > 0

\* the part of an answer from the references header on
SectionOf(text) ==
    LET at == { i \in DOMAIN text : text[i].k = "hdr" }
    IN IF at = {} THEN <<>>
       ELSE SubSeq(text, CHOOSE i \in at : \A j \in at : i <= j, Len(text))

\* the answer text ahead of the references header
AheadOfSection(text) == SubSeq(text, 1, Len(text) - Len(SectionOf(text)))

\* the reference lines of an answer, in order
RefLinesOf(text) == SelectSeq(text, LAMBDA t : t.k = "refline")

\* the steps of the request that are knowledge_base_search answers
AnswerSteps ==
    { i \in DOMAIN steps : steps[i].tool = KB /\ HasReferencesBlock(steps[i].obs) }

(***************************************************************************)
(* C13: the references section appended by rag_search depends on the       *)
(* WorkingSet only, never on the completion text: the returned answer is   *)
(* the completion text followed by exactly the section built from the      *)
(* WorkingSet, and two invocations of one request, which have the same     *)
(* WorkingSet, append identical sections whatever their completion texts.  *)
(***************************************************************************)
C13_ReferencesFromWorkingSet ==
    /\ Answered => rret = completion \o ReferencesSection(docs)
    /\ \A i, j \in AnswerSteps : SectionOf(steps[i].obs) = SectionOf(steps[j].obs)

\* two answers of one request with different completion texts
C13_Witness ==
    \E i, j \in AnswerSteps :
        /\ AheadOfSection(steps[i].obs) # AheadOfSection(steps[j].obs)
        /\ ExtractCitations(steps[i].obs) # ExtractCitations(steps[j].obs)
        /\ Len(RefLinesOf(steps[i].obs)) = 2

(***************************************************************************)
(* C14: for a WorkingSet of N documents the context given to the           *)
(* completion service labels the documents Source 1 .. Source N in         *)
(* WorkingSet order without gap or repeat, and the references section has  *)
(* exactly N lines numbered 1..N, line i carrying the                      *)
(* '{source_name} ({source_year})' label of the i-th WorkingSet document.  *)
(***************************************************************************)
C14_CitationIndexContiguous ==
    /\ (rpc = "r_done" /\ llm_calls = 1) =>
          /\ Len(context) = Len(docs)
          /\ \A i \in DOMAIN context :
                /\ context[i].citation_num = i
                /\ context[i].source_label = SourceLabel(docs[i])
                /\ context[i].doc_content = DocContent(docs[i])
    /\ Answered =>
          LET lines == RefLinesOf(rret)
          IN /\ Len(lines) = Len(docs)
             /\ \A i \in DOMAIN lines :
                   /\ lines[i].n = i
                   /\ lines[i].s = SourceLabel(docs[i])
                   /\ lines[i].s = context[i].source_label

\* a WorkingSet in which consecutive documents carry the same label
C14_Witness ==
    /\ Answered
    /\ Len(docs) >= 3
    /\ SourceLabel(docs[1]) = SourceLabel(docs[2])
    /\ SourceLabel(docs[2]) # SourceLabel(docs[3])
    /\ RefLinesOf(rret)[3].n = 3

(***************************************************************************)
(* The citation test (test_multi_source_citation.py)                       *)
(***************************************************************************)
\* extract_references: the lines after the "**References**" header
ExtractReferences(text) == RefLinesOf(SectionOf(text))

\* source_with_year.split(' (')[0]
BeforeYear(label) ==
    LET at == { i \in DOMAIN label : label[i] = LPAR }
    IN IF at = {} THEN label
       ELSE SubSeq(label, 1, (CHOOSE i \in at : \A j \in at : i <= j) - 1)

\* extract_unique_sources: the source names without number and year
ExtractUniqueSources(references) ==
    { BeforeYear(references[i].s) : i \in DOMAIN references }

\* the distinct source names of the documents of a list
SourceNamesOf(s) == { MetaGet(s[i].source_name, UnknownName) : i \in DOMAIN s }

ExpectedMinSources == 3

(***************************************************************************)
(* C15: whenever the CandidatePool holds documents of at least 3 distinct  *)
(* source names, the References block of the answer lists at least 3       *)
(* distinct source names, names being compared without the year as         *)
(* extract_unique_sources does.                                            *)
(***************************************************************************)
C15_ThreeSourceNamesListed ==
    (Answered /\ Cardinality(SourceNamesOf(all_docs)) >= ExpectedMinSources)
        => Cardinality(ExtractUniqueSources(ExtractReferences(rret))) >= ExpectedMinSources

(***************************************************************************)
(* C16: when the agent's final output contains the references marker and   *)
(* an inline citation marker, the verifier leaves it unchanged, and        *)
(* query() returns it (with the map of a tool step appended, if any).      *)
(***************************************************************************)
C16_VerifierNoOp ==
    (Verified /\ HasReferences(final) /\ HasInlineCitation(final))
        => /\ output = final
           /\ qret = PostProcess(final, steps, registry)
           /\ (~HasMapId(final) /\ \A i \in DOMAIN steps : ~HasMapId(steps[i].obs))
                 => qret = final

\* an observation with both markers, and a final output with both markers that
\* differs from it
C16_Witness ==
    /\ Verified
    /\ FirstKB(HasBoth) # 0
    /\ HasReferences(final)
    /\ HasInlineCitation(final)
    /\ final # steps[FirstKB(HasBoth)].obs
    /\ qret = final

CompletionRaised == rpc = "r_done" /\ llm_calls > 0 /\ Len(completion) = 0

C18_GenerationFailureIsErrorString ==
    CompletionRaised
        => /\ \E e \in CompletionErrors : rret = RagErrorText(e)
           /\ ~HasReferencesBlock(rret)
           /\ Len(RefLinesOf(rret)) = 0
           /\ llm_calls = 1

\* the failure came after a WorkingSet of several sources had been selected
C18_Witness ==
    /\ CompletionRaised
    /\ Cardinality(KeysOf(docs)) >= 2
    /\ Len(context) = Len(docs)
    /\ rret[1].k = "ragerror"

(***************************************************************************)
(* C19: no failure of the vector index, the completion service, the agent  *)
(* executor or a directly invoked tool leaves query(): whenever query()    *)
(* ends it has returned a text, and rag_search likewise returns a text to  *)
(* the agent.                                                              *)
(***************************************************************************)
TokenKinds ==
    { "word", "sup", "refword", "hdr", "refline", "mapid", "id", "map",
      "notinit", "noinfo", "ragerror", "queryerror" }

IsText(t) == Len(t) > 0 /\ \A i \in DOMAIN t : t[i].k \in TokenKinds

C19_QueryNeverRaises ==
    /\ qpc \in {"q_start", "q_mapcheck", "q_agent", "q_tool", "q_verify", "q_done"}
    /\ qpc = "q_done" => IsText(qret)
    /\ rpc \in {"r_idle", "r_start", "r_fallback", "r_loop", "r_llm", "r_done"}
    /\ rpc = "r_done" => IsText(rret)

\* the vector index failed inside a tool step, then the agent executor raised
C19_Witness ==
    /\ qpc = "q_done"
    /\ qret[1].k = "queryerror"
    /\ \E i \in DOMAIN steps : steps[i].tool = KB /\ steps[i].obs[1].k = "ragerror"

(***************************************************************************)
(* C20: on a crop without positive cell compute_zonal_statistics returns a *)
(* record with count = 0 and detect_hotspots returns an empty list,        *)
(* neither raising; analyze_country returns a result with no hotspot and   *)
(* total_hotspots_detected = 0.                                            *)
(***************************************************************************)
\* the crop was read and none of its cells is positive
NoPositiveCell == data.readable /\ \A c \in Cells(data) : data.cell[c] <= 0

BoundsFound == Len(bounds) > 0

C20_EmptyCropGivesZeroResult ==
    NoPositiveCell =>
        /\ ComputeZonalStatistics(data) = Returns(ZeroStatistics)
        /\ \A tp \in {50, DefaultThresholdPercentile}, mcs \in {1, DefaultMinClusterSize} :
              DetectHotspots(data, tp, mcs) = Returns(<<>>)
        /\ apc # "a_raised"
        /\ (BoundsFound /\ apc \in {"a_hotspots", "a_result", "a_done"})
              => stats.count = 0
        /\ (BoundsFound /\ apc \in {"a_result", "a_done"}) => Len(hotspots) = 0
        /\ (BoundsFound /\ apc = "a_done")
              => /\ Len(aret.hotspots) = 0
                 /\ aret.total_hotspots_detected = 0
                 /\ aret.statistics.count = 0

\* analyze_country has returned for a crop of zero and negative cells
C20_Witness ==
    /\ apc = "a_done"
    /\ BoundsFound
    /\ NoPositiveCell
    /\ \E c \in Cells(data) : data.cell[c] < 0
    /\ \E c \in Cells(data) : data.cell[c] = 0
    /\ aret.total_hotspots_detected = 0

(***************************************************************************)
(* Vocabulary of the grouping and selection properties                     *)
(***************************************************************************)
\* number of distinct SourceKeys of the CandidatePool
PoolSources == Cardinality(KeysOf(all_docs))

\* position of a document in the CandidatePool (0 if it is not a pool document)
PoolPosition(doc) ==
    IF \E p \in DOMAIN all_docs : all_docs[p] = doc
    THEN CHOOSE p \in DOMAIN all_docs : all_docs[p] = doc
    ELSE 0

(***************************************************************************)
(* C24: the per-source cap is 8 when the pool has at most 2 distinct       *)
(* SourceKeys, 4 when it has 3 or 4 and 2 when it has more than 4; the cap *)
(* never increases as the number of distinct SourceKeys grows; and no      *)
(* SourceKey contributes more documents to the WorkingSet than the cap.    *)
(***************************************************************************)
C24_CapPolicy ==
    BalancerDone =>
        /\ MaxPerSource(PoolSources) =
              (IF PoolSources <= 2 THEN 8 ELSE IF PoolSources <= 4 THEN 4 ELSE 2)
        /\ \A n \in 1..PoolSources : MaxPerSource(n) >= MaxPerSource(PoolSources)
        /\ \A key \in KeysOf(all_docs) : CountOf(docs, key) <= MaxPerSource(PoolSources)

\* more than 4 sources, one of them with more pool documents than the cap lets in
C24_Witness ==
    /\ BalancerDone
    /\ PoolSources > 4
    /\ Len(docs) < WorkingSetBudget
    /\ \E key \in KeysOf(all_docs) :
          /\ CountOf(all_docs, key) > 2
          /\ CountOf(docs, key) = 2

(***************************************************************************)
(* C26: two documents of the CandidatePool are placed in the same          *)
(* balancing group if and only if they have the same source_name and the   *)
(* same source_year; distinct (source_name, source_year) pairs are never   *)
(* merged into one group.                                                  *)
(***************************************************************************)
SameNameAndYear(d1, d2) ==
    /\ MetaGet(d1.source_name, UnknownName) = MetaGet(d2.source_name, UnknownName)
    /\ MetaGet(d1.source_year, UnknownYear) = MetaGet(d2.source_year, UnknownYear)

C26_GroupedIffSameNameAndYear ==
    BalancerDone =>
        \A i, j \in DOMAIN all_docs :
            (SourceKey(all_docs[i]) = SourceKey(all_docs[j]))
                <=> SameNameAndYear(all_docs[i], all_docs[j])

(***************************************************************************)
(* C27: the WorkingSet has at most 15 documents, every WorkingSet document *)
(* is a document of the pool, no pool document is selected twice, and      *)
(* documents of the same SourceKey appear in the WorkingSet in the same    *)
(* relative order as in the pool.                                          *)
(***************************************************************************)
C27_BoundedOrderedSelection ==
    BalancerDone =>
        /\ Len(docs) <= 15
        /\ \A i \in DOMAIN docs : PoolPosition(docs[i]) > 0
        /\ \A i, j \in DOMAIN docs :
              i # j => PoolPosition(docs[i]) # PoolPosition(docs[j])
        /\ \A i, j \in DOMAIN docs :
              (i < j /\ SourceKey(docs[i]) = SourceKey(docs[j]))
                  => PoolPosition(docs[i]) < PoolPosition(docs[j])

\* a full WorkingSet out of a larger pool, the sources interleaved: a document
\* selected later than another one stands ahead of it in the pool
C27_Witness ==
    /\ BalancerDone
    /\ Len(docs) = WorkingSetBudget
    /\ Len(all_docs) > WorkingSetBudget
    /\ \E i, j \in DOMAIN docs :
          /\ i < j
          /\ PoolPosition(docs[i]) > PoolPosition(docs[j])
    /\ \E i, j \in DOMAIN docs : i < j /\ SourceKey(docs[i]) = SourceKey(docs[j])

(***************************************************************************)
(* C28: the list of query variants actually retrieved has the original     *)
(* question first and between 1 and 3 entries in total, and it is the      *)
(* singleton list of the original question when the question matches none  *)
(* of 'political', 'situation', 'economy', 'economic' (case-insensitively).*)
(***************************************************************************)
\* the variants the loop of lines 131-141 has passed to the retriever so far
RetrievedVariants == SubSeq(related_queries, 1, vi - 1)

MatchesNoFamily(q) ==
    \A kw \in {"political", "situation", "economy", "economic"} : ~ContainsLower(q, kw)

C28_VariantsRetrieved ==
    (rpc = "r_loop" /\ vi > VariantLimit) =>
        /\ Len(RetrievedVariants) \in 1..3
        /\ RetrievedVariants[1] = query
        /\ MatchesNoFamily(query) => RetrievedVariants = <<query>>

\* an expansion of 4 variants of which 3 were retrieved, the 4th being different
C28_Witness ==
    /\ rpc = "r_loop" /\ vi > VariantLimit
    /\ Len(related_queries) = 4
    /\ Len(RetrievedVariants) = 3
    /\ \A i \in 1..3 : related_queries[4] # RetrievedVariants[i]

(***************************************************************************)
(* Vocabulary of the verifier's substitution                               *)
(***************************************************************************)
\* the knowledge_base_search steps whose observation the verifier would put in
\* place of the final output
QualifyingSteps ==
    { i \in DOMAIN steps :
        /\ steps[i].tool = KB
        /\ \/ LostReferences(steps[i].obs, final)
           \/ LostInlineCitations(steps[i].obs, final) }

\* a step of another tool whose observation carries both markers
ForeignCitedStep(i) ==
    /\ steps[i].tool # KB
    /\ HasBoth(steps[i].obs)

(***************************************************************************)
(* C30: the verifier's result is either the agent's final output or,       *)
(* verbatim, one knowledge_base_search observation that contains the       *)
(* references marker; observations of other tools never replace the final  *)
(* output; and when several knowledge_base_search observations qualify,    *)
(* the earliest one in step order is substituted, whatever the later ones  *)
(* are.                                                                    *)
(***************************************************************************)
C30_FinalOrEarliestObservation ==
    Verified =>
        /\ \/ output = final
           \/ \E i \in DOMAIN steps :
                 /\ steps[i].tool = KB
                 /\ HasReferences(steps[i].obs)
                 /\ output = steps[i].obs
        /\ QualifyingSteps = {} => output = final
        /\ QualifyingSteps # {} =>
              output = steps[CHOOSE i \in QualifyingSteps :
                                 \A j \in QualifyingSteps : i <= j].obs

\* two knowledge_base_search observations qualify and differ, the first one was
\* substituted
C30_Witness ==
    /\ Verified
    /\ Cardinality(QualifyingSteps) = 2
    /\ steps[1].obs # steps[2].obs
    /\ output = steps[1].obs
    /\ output # final

\* another tool's observation with both markers ahead of a knowledge_base_search
\* observation, the final output having neither marker
C30_ForeignObservationSkipped ==
    /\ Verified
    /\ Len(steps) = 2
    /\ ForeignCitedStep(1)
    /\ ~HasReferences(final)
    /\ 2 \in QualifyingSteps
    /\ output = steps[2].obs

(***************************************************************************)
(* C25: whenever the inline citation markers or the references block of    *)
(* the agent's final output differ from those of the knowledge_base_search *)
(* observation (markers or references added, renumbered or altered by the  *)
(* agent), query() returns the observation instead of the final output.    *)
(***************************************************************************)
\* the inline citation markers of a text, in order
InlineMarkers(text) == SelectSeq(text, LAMBDA t : t.k = "sup")

\* the references part of a text: header, the word References, reference lines
ReferencesPart(text) == SelectSeq(text, LAMBDA t : t.k \in {"hdr", "refword", "refline"})

SameCitationStructure(a, b) ==
    /\ InlineMarkers(a) = InlineMarkers(b)
    /\ ReferencesPart(a) = ReferencesPart(b)

C25_AlteredCitationsReplaced ==
    (/\ Verified
     /\ AnswerSteps # {}
     /\ \A i \in AnswerSteps : ~SameCitationStructure(final, steps[i].obs))
        => /\ output # final
           /\ \E i \in AnswerSteps : output = steps[i].obs

(***************************************************************************)
(* C21: in every list returned by detect_hotspots the hotspots are ordered *)
(* by non-increasing intensity and the hotspot at position i (0-based) has *)
(* rank i+1, so that the ranks are exactly 1..N without gap or repeat,     *)
(* whatever order the connected components were labelled in.               *)
(***************************************************************************)
\* detect_hotspots has returned its list into `hotspots`
HotspotsReturned == apc \in {"a_detected", "a_result", "a_done", "t_done"}

C21_RankedByIntensity ==
    HotspotsReturned =>
        /\ \A i \in DOMAIN hotspots : hotspots[i].rank = i
        /\ { hotspots[i].rank : i \in DOMAIN hotspots } = 1..Len(hotspots)
        /\ \A i, j \in DOMAIN hotspots :
              i < j => hotspots[i].intensity >= hotspots[j].intensity

\* two hotspots, the one labelled second (further down the raster) being the
\* more intense and therefore first in the list
C21_Witness ==
    /\ apc = "a_detected"
    /\ Len(hotspots) = 2
    /\ hotspots[1].lat.of_row > hotspots[2].lat.of_row
    /\ hotspots[1].intensity > hotspots[2].intensity
    /\ hotspots[1].rank = 1

(***************************************************************************)
(* C29: the zeroed statistics record returned when the crop has no         *)
(* positive cell has every field of the normal statistics record (mean,    *)
(* median, std, min, max, sum, count and the 75th, 90th and 95th           *)
(* percentiles), so that analyze_critical_infrastructure produces its      *)
(* report for such a country instead of an error result.                   *)
(***************************************************************************)
\* the tool has returned, analyze_country having given a result without error
ToolGotResult == apc = "t_done" /\ "statistics" \in DOMAIN aret

C29_ZeroRecordGivesReport ==
    (ToolGotResult /\ NoPositiveCell) =>
        /\ \A key \in DOMAIN Statistics(<<1>>) : key \in DOMAIN aret.statistics
        /\ report.kind = "report"

(***************************************************************************)
(* Vocabulary of the PMESII cache properties                               *)
(***************************************************************************)
\* a grouping with every PMESII domain over the indicators given
CompleteGrouping(g) ==
    /\ DOMAIN g = PmesiiDomains
    /\ \A i \in DOMAIN Indicators :
          \E domain \in PmesiiDomains :
             \E j \in DOMAIN g[domain] : g[domain][j] = Indicators[i]

\* call c performs its store in this step
Stores(c) == ppc[c] = "p_store" /\ ppc'[c] = "p_done"

\* call c returns in this step with a grouping it read or computed
ReturnsGrouping(c) == ppc[c] # "p_done" /\ ppc'[c] = "p_done"

\* a clear_pmesii_cache call is made in this step
Clears == clears' = clears + 1

C23_ClearRemovesOneEntry ==
    [][ Clears =>
          /\ DOMAIN cache' \subseteq DOMAIN cache
          /\ \A k \in DOMAIN cache' : cache'[k] = cache[k]
          /\ clear_country'.given =>
                \A k \in DOMAIN cache :
                    k # LowerCountry(clear_country'.name) => k \in DOMAIN cache'
          /\ ~clear_country'.given => DOMAIN cache' = {}
      ]_vars

====
